---------------------------- MODULE Spec2Model ----------------------------
(***************************************************************************)
(* A model of src/Exporter.py, the FreeCAD to POV-Ray exporter             *)
(* (class ExportToPovRay).                                                 *)
(*                                                                         *)
(* Texts are sequences of symbols.  A symbol is one character ("/", "*",   *)
(* "\n") or one word the program searches for as a whole (a declaration    *)
(* name, the word camera).  Generated POV-Ray code is a sequence of        *)
(* tokens, one per emitted clause.                                         *)
(***************************************************************************)
EXTENDS Integers, Sequences, FiniteSets, TLC

VARIABLES
    code,        \* delComments: the text handed in        (self.incContent as read)
    stripped,    \* delComments: what the call returned
    textPc       \* "idle" | "input" | "done"

textVars == <<code, stripped, textPc>>

VARIABLES
    geometry,    \* sketchToBezier: sketch.GeometryFacadeList, in its stored order
    bezier,      \* sketchToBezier: what the call returned
    sketchPc     \* "idle" | "input" | "done"

sketchVars == <<geometry, bezier, sketchPc>>

VARIABLES
    doc,             \* self.doc, self.objs: the document, Name -> object
    incContent,      \* self.incContent: the user's include file, comments removed
    texIncContent,   \* self.texIncContent: the texture include file
    meshFileContent, \* self.meshFileContent: the mesh declarations of the run
    call,            \* createPovCode: the object and the six flags of the call
    returned,        \* createPovCode: the povCode the call returned
    compilePc        \* "idle" | "ready" | "returned" | "raised"

selfVars == <<doc, incContent, texIncContent, meshFileContent>>

compileVars == <<call, returned, compilePc>>

VARIABLES
    reading,     \* POV-Ray reading the returned code: index of the next token
    env,         \* POV-Ray: the identifiers declared so far and their values
    instances    \* POV-Ray: the objects the array loop has instantiated so far

loopVars == <<reading, env, instances>>

VARIABLES
    renderSettings, \* the Settings object handed to initExport
    files,          \* the files at povPath, meshPath, incPath, texIncPath, iniPath
    runs            \* what each finished initExport left behind, oldest first

exportVars == <<renderSettings, files, runs>>

VARIABLES
    stack,          \* the createPovCode calls that have not returned, outermost first
    sortedSoFar,    \* sketchToBezier: the local list sortedLines
    unsortedLeft,   \* sketchToBezier: the local list unsortedLines
    loopStart,      \* sketchToBezier: startLine, the line that opened the loop
    stepPc          \* "idle" | "enter" | "outer" | "inner" | "children" |
                    \* "returned" | "raised"

stepVars == <<stack, sortedSoFar, unsortedLeft, loopStart, stepPc>>

vars == <<textVars, sketchVars, selfVars, compileVars, loopVars, exportVars, stepVars>>

-----------------------------------------------------------------------------
(* Python values *)

\* Python's None, as a text value: incContent after a failed delComments.
None == [isNone |-> TRUE, text |-> <<>>]

Str(s) == [isNone |-> FALSE, text |-> s]

\* s[from:] and s[0:to] with Python's 0-based, end-exclusive indices.
SliceFrom(s, from) == SubSeq(s, from + 1, Len(s))

SliceTo(s, to) == SubSeq(s, 1, to)

\* str.find(pat, start): the lowest 0-based index >= start where pat occurs, else -1.
Find(s, pat, start) ==
    LET hits == {i \in start .. (Len(s) - Len(pat)) :
                    SubSeq(s, i + 1, i + Len(pat)) = pat}
    IN  IF hits = {} THEN -1
        ELSE CHOOSE i \in hits : \A j \in hits : i <= j

-----------------------------------------------------------------------------
(* delComments, Exporter.py 2023-2049 *)

BlockOpen == <<"/", "*">>

BlockClose == <<"*", "/">>

LineOpen == <<"/", "/">>

Newline == <<"\n">>

\* DelLittle with the unterminated line comment cut off instead of reported.
RECURSIVE DelLittleCutsTail(_)
DelLittleCutsTail(c) ==
    LET comStart == Find(c, LineOpen, 0)
        comEnd   == Find(c, Newline, comStart + 2)
    IN  IF comStart = -1 THEN Str(c)
        ELSE IF comEnd = -1 THEN Str(SliceTo(c, comStart))
        ELSE DelLittleCutsTail(SliceTo(c, comStart) \o SliceFrom(c, comEnd))

\* The "delete little comments" loop (2039-2048).
RECURSIVE DelLittle(_)
DelLittle(c) ==
    LET comStart == Find(c, LineOpen, 0)
        comEnd   == Find(c, Newline, comStart + 2)
    IN  IF comStart = -1 THEN Str(c)
        ELSE IF comEnd = -1 THEN None
        ELSE DelLittle(SliceTo(c, comStart) \o SliceFrom(c, comEnd))

\* The "delete big comments" loop (2027-2036); its result feeds the second loop.
RECURSIVE DelBig(_)
DelBig(c) ==
    LET comStart == Find(c, BlockOpen, 0)
        comEnd   == Find(c, BlockClose, comStart + 2)
    IN  IF comStart = -1 THEN Str(c)
        ELSE IF comEnd = -1 THEN None
        ELSE DelBig(SliceTo(c, comStart) \o SliceFrom(c, comEnd + 2))

delComments(c) ==
    LET big == DelBig(c)
    IN  IF big.isNone THEN None ELSE DelLittle(big.text)

-----------------------------------------------------------------------------
(* Specification of delComments alone: every text up to MaxLen symbols. *)

MaxLen == 6

Symbols == {"/", "*", "\n", "d"}

RECURSIVE Texts(_)
Texts(n) ==
    IF n = 0 THEN {<<>>}
    ELSE LET shorter == Texts(n - 1)
         IN  shorter \cup {Append(t, s) : t \in {u \in shorter : Len(u) = n - 1},
                                          s \in Symbols}

CompileIdle ==
    /\ doc = <<>>
    /\ incContent = Str(<<>>)
    /\ texIncContent = Str(<<>>)
    /\ meshFileContent = <<>>
    /\ call = <<>>
    /\ returned = <<>>
    /\ compilePc = "idle"

LoopIdle ==
    /\ reading = 0
    /\ env = <<>>
    /\ instances = <<>>

ExportIdle ==
    /\ renderSettings = <<>>
    /\ files = <<>>
    /\ runs = <<>>

SketchIdle ==
    /\ geometry = <<>>
    /\ bezier = [unsupported |-> FALSE]
    /\ sketchPc = "idle"

TextIdle ==
    /\ code = <<>>
    /\ stripped = None
    /\ textPc = "idle"

StepIdle ==
    /\ stack = <<>>
    /\ sortedSoFar = <<>>
    /\ unsortedLeft = <<>>
    /\ loopStart = <<>>
    /\ stepPc = "idle"

TextInit ==
    /\ code \in Texts(MaxLen)
    /\ stripped = None
    /\ textPc = "input"
    /\ SketchIdle /\ CompileIdle /\ LoopIdle /\ ExportIdle /\ StepIdle

DelCommentsCall ==
    /\ textPc = "input"
    /\ stripped' = delComments(code)
    /\ textPc' = "done"
    /\ UNCHANGED <<code, sketchVars, selfVars, compileVars, loopVars, exportVars, stepVars>>

TextNext == DelCommentsCall

SpecDelComments == TextInit /\ [][TextNext]_vars

-----------------------------------------------------------------------------
(* Sketch geometry.  Coordinates are integers in units of 0.0001 mm, so that *)
(* round(v, 3) has something to round; a sketch is planar, z = 0.            *)

Pt(x, y) == [x |-> x, y |-> y, z |-> 0]

\* round(v, 3) on a coordinate in 0.0001 mm units (no coordinate used ends in 5).
Round3(v) == IF v >= 0 THEN ((v + 5) \div 10) * 10 ELSE -(((-v) + 5) \div 10) * 10

\* isSamePoint, Exporter.py 1117-1127.
isSamePoint(point1, point2) ==
    /\ Round3(point1.x) = Round3(point2.x)
    /\ Round3(point1.y) = Round3(point2.y)
    /\ Round3(point1.z) = Round3(point2.z)

\* Part.LineSegment, Part.ArcOfCircle and other bounded curves have StartPoint
\* and EndPoint; Part.Circle and Part.Point have neither (AttributeError).
HasEndPoints(g) == g.type \in {"LineSegment", "ArcOfCircle", "BSplineCurve"}

\* curve.reverse(): the end points swap; an arc's axis flips.
reverse(g) ==
    [g EXCEPT !.StartPoint = g.EndPoint, !.EndPoint = g.StartPoint,
              !.axisZ = -g.axisZ]

\* del lines[i], i 1-based.
DelAt(lines, i) == SubSeq(lines, 1, i - 1) \o SubSeq(lines, i + 1, Len(lines))

Last(seq) == seq[Len(seq)]

\* getNextLine, Exporter.py 1106-1115: the 0-based index of the first line with
\* an end on lastLine.EndPoint, -1 if none; raised when the scan meets a line
\* without EndPoint before it finds one.
ScanStops(lines, lastLine) ==
    {i \in 1 .. Len(lines) :
        \/ ~HasEndPoints(lines[i])
        \/ isSamePoint(lines[i].EndPoint, lastLine.EndPoint)
        \/ isSamePoint(lines[i].StartPoint, lastLine.EndPoint)}

ScanResult(lines, first) ==
    IF ~HasEndPoints(lines[first]) THEN [raised |-> TRUE, i |-> -1]
    ELSE [raised |-> FALSE, i |-> first - 1]

ScanFirst(lines, stops) ==
    IF stops = {} THEN [raised |-> FALSE, i |-> -1]
    ELSE ScanResult(lines, CHOOSE i \in stops : \A j \in stops : i <= j)

getNextLine(lines, lastLine) == ScanFirst(lines, ScanStops(lines, lastLine))

\* 919-923: the matching line, reversed if its end is the one that matches.
Directed(lastLine, cand) ==
    IF isSamePoint(lastLine.EndPoint, cand.EndPoint) THEN reverse(cand) ELSE cand

\* The inner loop of sketchToBezier, 910-926: chain lines until the loop that
\* startLine opened is closed.  unsortedLines[-1] is Python's last element,
\* and an index into an empty list raises.
RECURSIVE ChainLoop(_, _, _)

ChainTake(startLine, sortedLines, unsortedLines, raised, nextLineI) ==
    IF raised \/ nextLineI = 0
    THEN [raised |-> TRUE, sortedLines |-> sortedLines, unsortedLines |-> unsortedLines]
    ELSE ChainLoop(startLine,
                   Append(sortedLines, Directed(Last(sortedLines), unsortedLines[nextLineI])),
                   DelAt(unsortedLines, nextLineI))

ChainStep(startLine, sortedLines, unsortedLines, nxt) ==
    ChainTake(startLine, sortedLines, unsortedLines, nxt.raised,
              IF nxt.i = -1 THEN Len(unsortedLines) ELSE nxt.i + 1)

ChainLoop(startLine, sortedLines, unsortedLines) ==
    IF isSamePoint(startLine.StartPoint, Last(sortedLines).EndPoint)
    THEN [raised |-> FALSE, sortedLines |-> sortedLines, unsortedLines |-> unsortedLines]
    ELSE ChainStep(startLine, sortedLines, unsortedLines,
                   getNextLine(unsortedLines, Last(sortedLines)))

\* The outer loop, 901-926.
RECURSIVE OrderLines(_, _)

OrderAfter(c) ==
    IF c.raised THEN [raised |-> TRUE, sortedLines |-> c.sortedLines]
    ELSE OrderLines(c.sortedLines, c.unsortedLines)

OrderFrom(startLine, sortedLines, unsortedLines) ==
    IF startLine.type = "Circle" THEN OrderLines(sortedLines, unsortedLines)
    ELSE IF ~HasEndPoints(startLine) THEN [raised |-> TRUE, sortedLines |-> sortedLines]
    ELSE OrderAfter(ChainLoop(startLine, sortedLines, unsortedLines))

OrderLines(sortedLines, unsortedLines) ==
    IF unsortedLines = <<>>
    THEN [raised |-> FALSE, sortedLines |-> sortedLines]
    ELSE OrderFrom(Head(unsortedLines), Append(sortedLines, Head(unsortedLines)),
                   Tail(unsortedLines))

\* 886-895: the geometry that is kept for ordering.
KeptGeometry(facadeList) ==
    SelectSeq(facadeList, LAMBDA g : ~g.Construction \/ g.type = "Point")

\* (4/3) * tan(pi/8) = 0.5523, times 10000 (line 962).
KappaE4 == 5523

\* 1020-1028: the number of segments an arc of `a` degrees is split into.
NumOfSegments(a) ==
    IF a % 180 = 0 THEN a \div 90 ELSE (a \div 90) + 1

\* 1031-1046 and 1049-1100: the four control points of segment i of an arc.
\* Their coordinates come from cos and sin of the segment's angles; the model
\* keeps the angles.
ArcSegmentPoints(arc, i, angleNum, angleDen) ==
    LET reversed == arc.axisZ < 0
        base == IF reversed THEN arc.LastParameter ELSE arc.FirstParameter
        sign == IF reversed THEN -1 ELSE 1
        pt(k, role) == [curve |-> "arc", role |-> role,
                        angleNum |-> base * angleDen + sign * k * angleNum,
                        angleDen |-> angleDen, reversed |-> reversed]
    IN  <<pt(i, "start"), pt(i, "startControl"),
          pt(i + 1, "endControl"), pt(i + 1, "end")>>

RECURSIVE ArcPoints(_, _, _)
ArcPoints(arc, i, n) ==
    IF i >= n THEN <<>>
    ELSE ArcSegmentPoints(arc, i, arc.LastParameter - arc.FirstParameter, n)
         \o ArcPoints(arc, i + 1, n)

\* 932-1102: the control points one ordered line writes, and what it adds to
\* numOfPoints.
LinePoints(line) ==
    LET s == [curve |-> "line", x |-> Round3(line.StartPoint.x),
              y |-> Round3(line.StartPoint.y)]
        e == [curve |-> "line", x |-> Round3(line.EndPoint.x),
              y |-> Round3(line.EndPoint.y)]
    IN  <<s, s, e, e>>

CirclePoints(line) ==
    LET r   == line.Radius
        cx  == Round3(line.Center.x)
        cy  == Round3(line.Center.y)
        dTC == Round3((KappaE4 * r) \div 10000)
        p(x, y) == [curve |-> "circle", x |-> x, y |-> y]
        posP0 == p(cx, cy + r)
        posP1 == p(cx + r, cy)
        posP2 == p(cx, cy - r)
        posP3 == p(cx - r, cy)
    IN  <<posP0, p(cx + dTC, cy + r), p(cx + r, cy + dTC), posP1,
          posP1, p(cx + r, cy - dTC), p(cx + dTC, cy - r), posP2,
          posP2, p(cx - dTC, cy - r), p(cx - r, cy - dTC), posP3,
          posP3, p(cx - r, cy + dTC), p(cx - dTC, cy + r), posP0>>

\* EmitLine counting a circle as three quarter arcs.
EmitLineShortCircle(line) ==
    CASE line.type = "LineSegment" ->
            [points |-> LinePoints(line), count |-> 4]
      [] line.type = "Circle" ->
            [points |-> CirclePoints(line), count |-> 12]
      [] line.type = "ArcOfCircle" ->
            LET n == NumOfSegments(line.LastParameter - line.FirstParameter)
            IN  [points |-> ArcPoints(line, 0, n), count |-> 4 * n]
      [] OTHER -> [points |-> <<>>, count |-> 0]

EmitLine(line) ==
    CASE line.type = "LineSegment" ->
            [points |-> LinePoints(line), count |-> 4]
      [] line.type = "Circle" ->
            [points |-> CirclePoints(line), count |-> 16]
      [] line.type = "ArcOfCircle" ->
            LET n == NumOfSegments(line.LastParameter - line.FirstParameter)
            IN  [points |-> ArcPoints(line, 0, n), count |-> 4 * n]
      [] OTHER -> [points |-> <<>>, count |-> 0]

RECURSIVE EmitLines(_, _, _)

EmitNext(lines, povSpline, numOfPoints, e) ==
    EmitLines(Tail(lines), povSpline \o e.points, numOfPoints + e.count)

EmitLines(lines, povSpline, numOfPoints) ==
    IF lines = <<>> THEN [povSpline |-> povSpline, numOfPoints |-> numOfPoints]
    ELSE EmitNext(lines, povSpline, numOfPoints, EmitLine(Head(lines)))

\* The -1 that sketchToBezier returns from its except clause (929).
Unsupported ==
    [unsupported |-> TRUE, povSpline |-> <<>>, numOfPoints |-> 0, sortedLines |-> <<>>]

\* 1104: return [povSpline, numOfPoints].  sortedLines is the local list, kept
\* in the result for the claims about the ordering.
Spline(sortedLines, out) ==
    [unsupported |-> FALSE, povSpline |-> out.povSpline,
     numOfPoints |-> out.numOfPoints, sortedLines |-> sortedLines]

SplineOfOrdered(ord) ==
    IF ord.raised THEN Unsupported
    ELSE Spline(ord.sortedLines, EmitLines(ord.sortedLines, <<>>, 0))

\* sketchToBezier, Exporter.py 878-1104.
sketchToBezier(facadeList) == SplineOfOrdered(OrderLines(<<>>, KeptGeometry(facadeList)))

-----------------------------------------------------------------------------
(* Specification of sketchToBezier alone: every geometry list of up to      *)
(* MaxSegs elements drawn from SketchElements.                              *)

MaxSegs == 4

\* One millimetre in coordinate units.
Mm == 10000

P0 == Pt(0, 0)

P1 == Pt(Mm, 0)

P2 == Pt(0, Mm)

Curve(type, s, e) ==
    [type |-> type, StartPoint |-> s, EndPoint |-> e, Construction |-> FALSE,
     axisZ |-> 1, FirstParameter |-> 0, LastParameter |-> 0,
     Center |-> P0, Radius |-> 0]

LineSegment(s, e) == Curve("LineSegment", s, e)

Circle(c, r) == [Curve("Circle", c, c) EXCEPT !.Center = c, !.Radius = r]

\* The arc of radius 1 mm about P0 from first to last degrees, counterclockwise.
ArcOfCircle(s, e, first, last) ==
    [Curve("ArcOfCircle", s, e) EXCEPT !.FirstParameter = first,
                                       !.LastParameter = last, !.Radius = Mm]

SketchElements ==
    ({LineSegment(a, b) : a, b \in {P0, P1, P2}}
        \ {LineSegment(a, a) : a \in {P0, P1, P2}})
    \cup {Circle(P0, Mm), ArcOfCircle(P1, P2, 0, 90)}

RECURSIVE GeometryLists(_)
GeometryLists(n) ==
    IF n = 0 THEN {<<>>}
    ELSE LET shorter == GeometryLists(n - 1)
         IN  shorter \cup {Append(t, g) : t \in {u \in shorter : Len(u) = n - 1},
                                          g \in SketchElements}

SketchInit ==
    /\ geometry \in GeometryLists(MaxSegs)
    /\ bezier = [unsupported |-> FALSE]
    /\ sketchPc = "input"
    /\ TextIdle /\ CompileIdle /\ LoopIdle /\ ExportIdle /\ StepIdle

SketchToBezierCall ==
    /\ sketchPc = "input"
    /\ bezier' = sketchToBezier(geometry)
    /\ sketchPc' = "done"
    /\ UNCHANGED <<geometry, textVars, selfVars, compileVars, loopVars, exportVars, stepVars>>

SketchNext == SketchToBezierCall

SpecSketch == SketchInit /\ [][SketchNext]_vars

-----------------------------------------------------------------------------
(* Specification of sketchToBezier on a profile with points and construction *)
(* geometry: a closed loop with up to MaxExtras such elements put anywhere  *)
(* into its geometry list.                                                  *)

MaxExtras == 2

\* Part.Point: a point of the sketch.
Point(p) == Curve("Point", p, p)

Construction(g) == [g EXCEPT !.Construction = TRUE]

Extras ==
    {Point(P1), Construction(Point(P2)), Construction(LineSegment(P0, P2)),
     Construction(Circle(P0, Mm))}

IsExtra(g) == g.Construction \/ g.type = "Point"

\* The sector of the circle of radius 1 mm about P0 from 0 degrees to the
\* point e at `last` degrees: the arc and the two radii.
Sector(e, last) == <<ArcOfCircle(P1, e, 0, last), LineSegment(e, P0), LineSegment(P0, P1)>>

ClosedLoops ==
    { <<LineSegment(P0, P1), LineSegment(P1, P2), LineSegment(P2, P0)>>,
      <<LineSegment(P0, P1), LineSegment(P2, P0), LineSegment(P1, P2)>>,
      <<Circle(P0, Mm)>>,
      Sector(Pt(7071, 7071), 45), Sector(P2, 90), Sector(Pt(-7071, 7071), 135),
      Sector(Pt(-Mm, 0), 180), Sector(Pt(0, -Mm), 270) }

InsertAt(lines, i, g) == SubSeq(lines, 1, i) \o <<g>> \o SubSeq(lines, i + 1, Len(lines))

RECURSIVE WithExtras(_, _)
WithExtras(loop, n) ==
    IF n = 0 THEN {loop}
    ELSE LET fewer == WithExtras(loop, n - 1)
         IN  fewer \cup UNION {{InsertAt(l, i, g) : i \in 0 .. Len(l), g \in Extras} :
                                   l \in fewer}

ProfileInit ==
    /\ \E loop \in ClosedLoops : geometry \in WithExtras(loop, MaxExtras)
    /\ bezier = [unsupported |-> FALSE]
    /\ sketchPc = "input"
    /\ TextIdle /\ CompileIdle /\ LoopIdle /\ ExportIdle /\ StepIdle

ProfileNext == SketchToBezierCall

SpecProfile == ProfileInit /\ [][ProfileNext]_vars

-----------------------------------------------------------------------------
(* The FreeCAD document.  An object is a record; objects refer to each      *)
(* other by Name.  A Name is <<stem, number>>, so that Name.startswith is   *)
(* a test of the stem.  Lengths are whole millimetres, angles whole         *)
(* degrees; a Rotation keeps its Angle in units of pi/12, as FreeCAD keeps  *)
(* it in radians.                                                           *)

NoObject == <<"None", "">>

Vec(x, y, z) == [x |-> x, y |-> y, z |-> z]

\* math.degrees of an angle kept in units of pi/12 (line 1977).
DegPerUnit == 15

Degrees(angle) == angle * DegPerUnit

\* App.Rotation(axis, angleInDegrees): the Rotation with that axis and angle.
RotationAxisDeg(axis, deg) == [Axis |-> axis, Angle |-> deg \div DegPerUnit]

\* Rotation.toEuler() as (yaw, pitch, roll) in degrees, for a rotation about
\* one coordinate axis, for the quarter turn about (1, 1, 0), which is yaw 45,
\* pitch 45, roll 90, and for the third of a turn about (1, 1, 1), which is
\* yaw 90, roll 90.
toEuler(rotation) ==
    LET deg == Degrees(rotation.Angle)
    IN  CASE rotation.Axis = Vec(0, 0, 1) -> <<deg, 0, 0>>
          [] rotation.Axis = Vec(0, 1, 0) -> <<0, deg, 0>>
          [] rotation.Axis = Vec(1, 0, 0) -> <<0, 0, deg>>
          [] rotation.Axis = Vec(1, 1, 0) /\ deg = 90 -> <<45, 45, 90>>
          [] rotation.Axis = Vec(1, 1, 1) /\ deg = 120 -> <<90, 0, 90>>
          [] OTHER -> <<0, 0, 0>>

startswith(name, prefix) == name[1] = prefix

\* stringCorrection of helpDefs: the label as a POV-Ray identifier.  Labels of
\* the model are identifiers already.
stringCorrection(label) == label

\* str.capitalize(): the first character upper case, the others lower case.
capitalize(label) ==
    CASE label = "MultiFuse" -> "Multifuse"
      [] label = "MultiCommon" -> "Multicommon"
      [] label = "PointLight" -> "Pointlight"
      [] label = "AreaLight" -> "Arealight"
      [] label = "SpotLight" -> "Spotlight"
      [] label = "ImagePlane" -> "Imageplane"
      [] label = "SketchCircle" -> "Sketchcircle"
      [] label = "SketchSpline" -> "Sketchspline"
      [] label = "SketchOpen" -> "Sketchopen"
      [] OTHER -> label

\* fcObj.InList: the objects that link to the object.
InList(objs, name) ==
    {p \in DOMAIN objs :
        \/ \E i \in 1 .. Len(objs[p].OutList) : objs[p].OutList[i] = name}

-----------------------------------------------------------------------------
(* Generated code: a sequence of tokens, one per emitted clause.  A token   *)
(* has a kind k and the Name n of the object it was written for.            *)

Tok(k, n) == [k |-> k, n |-> n]

\* "<keyword> {" with its parameters.
Open(kw, n, params) == [k |-> "open", n |-> n, kw |-> kw, params |-> params]

Close(n) == Tok("close", n)

\* What a call returns, with what it appended to self.meshFileContent, or the
\* fact that it raised.
Ret(povCode, mesh) == [code |-> povCode, mesh |-> mesh, raised |-> FALSE]

Raised(mesh) == [code |-> <<>>, mesh |-> mesh, raised |-> TRUE]

\* A value or an exception, for the helpers that append nothing to the mesh file.
Val(v) == [v |-> v, raised |-> FALSE]

Exc == [v |-> <<>>, raised |-> TRUE]

-----------------------------------------------------------------------------
(* Transform/material helpers, Exporter.py 1635-1839 *)

\* getTranslation, 1635-1645.
getTranslation(objs, fcObj) ==
    LET b == objs[fcObj].Placement.Base
    IN  IF b.x # 0 \/ b.y # 0 \/ b.z # 0
        THEN <<[k |-> "translate", n |-> fcObj, v |-> b]>>
        ELSE <<>>

\* 1651-1660 and 1672-1683: the Euler angles after the type-specific
\* correction; fcObj.OutList[0] raises IndexError on an empty OutList.
CorrectedEuler(objs, fcObj) ==
    LET o == objs[fcObj]
        e == toEuler(o.Placement.Rotation)
    IN  IF o.TypeId = "Part::Torus" THEN Val(Vec(e[3] + 90, e[2], e[1]))
        ELSE IF startswith(fcObj, "Clone") /\ o.OutList = <<>> THEN Exc
        ELSE IF startswith(fcObj, "Clone") /\ objs[o.OutList[1]].TypeId = "Part::Torus"
        THEN Val(Vec(e[3] + 90, e[2], e[1]))
        ELSE IF o.TypeId = "Sketcher::SketchObject" THEN Val(Vec(e[3] - 90, e[2], e[1]))
        ELSE Val(Vec(e[3], e[2], e[1]))

\* getRotation, 1647-1667.
getRotation(objs, fcObj) ==
    LET r == CorrectedEuler(objs, fcObj)
    IN  IF r.raised THEN Exc
        ELSE IF r.v.x # 0 \/ r.v.y # 0 \/ r.v.z # 0
        THEN Val(<<[k |-> "rotate", n |-> fcObj, v |-> r.v]>>)
        ELSE Val(<<>>)

\* getInvertedRotation with the three statements in the order x, y, z.
getInvertedRotationXFirst(objs, fcObj) ==
    LET r == CorrectedEuler(objs, fcObj)
        one(axis, a) == IF a # 0
                        THEN <<[k |-> "rotateInv", n |-> fcObj, axis |-> axis, v |-> -a]>>
                        ELSE <<>>
    IN  IF r.raised THEN Exc
        ELSE Val(one("x", r.v.x) \o one("y", r.v.y) \o one("z", r.v.z))

\* getInvertedRotation, 1669-1694: one negated rotate per axis, z then y then x.
getInvertedRotation(objs, fcObj) ==
    LET r == CorrectedEuler(objs, fcObj)
        one(axis, a) == IF a # 0
                        THEN <<[k |-> "rotateInv", n |-> fcObj, axis |-> axis, v |-> -a]>>
                        ELSE <<>>
    IN  IF r.raised THEN Exc
        ELSE Val(one("z", r.v.z) \o one("y", r.v.y) \o one("x", r.v.x))

\* "#declare <label><suffix>" as the symbols of a text.
Declare(label, suffix) == <<"#declare ", label>> \o suffix

\* text.find(pattern) != -1 on a resource text; None has no find (AttributeError).
Declares(text, label, suffix) ==
    Find(text.text, Declare(stringCorrection(label), suffix), 0) # -1

\* getPigment, 1794-1806.
getPigment(self, viewObject) ==
    IF viewObject.Transparency # 0 \/ viewObject.ShapeColor # self.DefaultShapeColor
    THEN <<[k |-> "pigment", n |-> viewObject.Object, color |-> viewObject.ShapeColor,
            transmit |-> viewObject.Transparency]>>
    ELSE <<>>

\* getFinish, 1808-1839.
getFinish(viewObject) ==
    IF \/ viewObject.AmbientColor # "baseline"
       \/ viewObject.EmissiveColor # "black"
       \/ viewObject.SpecularColor # "black"
    THEN <<[k |-> "finish", n |-> viewObject.Object, ambient |-> viewObject.AmbientColor,
            emission |-> viewObject.EmissiveColor, phong |-> viewObject.SpecularColor]>>
    ELSE <<>>

\* getMaterial, 1751-1792.
getMaterial(self, fcObj) ==
    LET o     == self.objs[fcObj]
        label == o.Label
        tex   == self.texIncContent
        named(kind, name) == <<[k |-> "material", n |-> fcObj, kind |-> kind,
                                 name |-> name]>>
        own   == getPigment(self, o.ViewObject) \o getFinish(o.ViewObject)
        user(material) ==
            IF self.incContent.isNone THEN Exc
            ELSE IF Declares(self.incContent, label, <<"_", "material">>)
            THEN Val(named("material", <<label, "_", "material">>))
            ELSE Val(material)
    IN  IF Declares(tex, label, <<"_", "material", "_", "hollow">>)
        THEN user(named("hollow material", <<label, "_", "material", "_", "hollow">>))
        ELSE IF Declares(tex, label, <<"_">>)
        THEN IF Declares(tex, label, <<"_", "material">>)
             THEN user(named("material", <<label, "_", "material">>))
             ELSE IF Declares(tex, label, <<"_", "texture">>)
             THEN user(named("texture", <<label, "_", "texture">>))
             ELSE IF Declares(tex, label, <<"_", "pigment">>)
             THEN user(named("pigment", <<label, "_", "pigment">>))
             ELSE Val(<<>>)
        ELSE user(own)

\* getPhotons, 1696-1748.
getPhotons(self, fcObj) ==
    LET label == self.objs[fcObj].Label
        inc   == self.incContent
    IN  IF inc.isNone THEN Exc
        ELSE IF ~Declares(inc, label, <<"_", "photons">>) THEN Val(<<>>)
        ELSE Val(<<[k |-> "photons", n |-> fcObj,
                    target |-> fcObj[1] \notin {"PointLight", "AreaLight", "SpotLight"},
                    reflection |-> Declares(inc, label, <<"_", "photons", "_", "reflection">>),
                    refraction |-> Declares(inc, label, <<"_", "photons", "_", "refraction">>),
                    collect |-> Declares(inc, label, <<"_", "photons", "_", "collect">>)]>>)

-----------------------------------------------------------------------------
(* createMesh, Exporter.py 1239-1342 *)

\* createMesh going on to the object statement when the Topology is empty.
MeshDefinitionUndeclared(objs, fcObj, expMeshDef) ==
    LET o == objs[fcObj]
    IN  IF ~expMeshDef THEN [skip |-> FALSE, decl |-> <<>>]
        ELSE IF ~o.isMesh /\ ~o.hasShape THEN [skip |-> TRUE, decl |-> <<>>]
        ELSE IF o.Topology.vertices = 0 \/ o.Topology.triangles = 0
        THEN [skip |-> FALSE, decl |-> <<>>]
        ELSE [skip |-> FALSE,
              decl |-> <<[k |-> "mesh2", n |-> fcObj,
                          name |-> <<stringCorrection(o.Label), "_", "mesh">>,
                          vertices |-> o.Topology.vertices,
                          triangles |-> o.Topology.triangles]>>]

\* 1244-1316: the declaration appended to self.meshFileContent; <<>> with
\* skip set when the function returns "" instead (no Shape, no mesh, or an
\* empty Topology).
MeshDefinition(objs, fcObj, expMeshDef) ==
    LET o == objs[fcObj]
    IN  IF ~expMeshDef THEN [skip |-> FALSE, decl |-> <<>>]
        ELSE IF ~o.isMesh /\ ~o.hasShape THEN [skip |-> TRUE, decl |-> <<>>]
        ELSE IF o.Topology.vertices = 0 \/ o.Topology.triangles = 0
        THEN [skip |-> TRUE, decl |-> <<>>]
        ELSE [skip |-> FALSE,
              decl |-> <<[k |-> "mesh2", n |-> fcObj,
                          name |-> <<stringCorrection(o.Label), "_", "mesh">>,
                          vertices |-> o.Topology.vertices,
                          triangles |-> o.Topology.triangles]>>]

\* 1318-1342: the object statement that refers to the declared mesh.
MeshObjectCode(fcObj, f, head, back, rotation, pigment, photons) ==
    IF pigment.raised \/ rotation.raised \/ photons.raised THEN Exc
    ELSE Val(head
             \o [j \in 1 .. Len(back) |-> [back[j] EXCEPT !.k = "translateBack"]]
             \o rotation.v \o pigment.v \o photons.v
             \o (IF f.expClose THEN <<Close(fcObj)>> ELSE <<>>))

MeshObject(self, fcObj, f) ==
    MeshObjectCode(fcObj, f,
        <<Open("object", fcObj, <<stringCorrection(self.objs[fcObj].Label), "_", "mesh">>)>>,
        IF f.expPlacement THEN <<>> ELSE getTranslation(self.objs, fcObj),
        IF f.expPlacement THEN Val(<<>>) ELSE getInvertedRotation(self.objs, fcObj),
        getMaterial(self, fcObj),
        IF f.expPhotons THEN getPhotons(self, fcObj) ELSE Val(<<>>))

MeshWritten(def, obj) ==
    IF def.skip THEN Ret(<<>>, <<>>)
    ELSE IF obj.raised THEN Raised(def.decl)
    ELSE Ret(obj.v, def.decl)

createMesh(self, fcObj, f) ==
    MeshWritten(MeshDefinition(self.objs, fcObj, f.expMeshDef), MeshObject(self, fcObj, f))

-----------------------------------------------------------------------------
(* Support checks, Exporter.py 1137-1237 *)

\* isSketchSupported, 1224-1237.
isSketchSupported(objs, sketch) ==
    \A i \in 1 .. Len(objs[sketch].Geometry) :
        LET line == objs[sketch].Geometry[i]
        IN  \/ line.type \in {"LineSegment", "Circle", "Point", "ArcOfCircle"}
            \/ line.Construction

\* isPadPocketSupported, 1184-1198.
isPadPocketSupported(objs, fcObj) ==
    /\ objs[fcObj].TypeId \in {"PartDesign::Pad", "PartDesign::Pocket"}
    /\ objs[fcObj].Type \in {"Length"}
    /\ isSketchSupported(objs, objs[fcObj].Profile[1])

\* isExtrudeSupported, 1200-1222.
isExtrudeSupported(objs, fcObj) ==
    /\ objs[fcObj].DirMode = "Normal"
    /\ ~(objs[fcObj].TaperAngle # 0 \/ objs[fcObj].TaperAngleRev # 0)
    /\ objs[objs[fcObj].Base].TypeId = "Sketcher::SketchObject"
    /\ isSketchSupported(objs, objs[fcObj].Base)

\* body.OutListRecursive.
RECURSIVE OutListRecursive(_, _)
OutListRecursive(objs, seen) ==
    LET more == {c \in DOMAIN objs :
                    \E p \in seen : \E i \in 1 .. Len(objs[p].OutList) :
                        objs[p].OutList[i] = c}
    IN  IF more \subseteq seen THEN seen ELSE OutListRecursive(objs, seen \cup more)

\* isBodySupported, 1137-1182.
isBodySupported(objs, body) ==
    LET children == OutListRecursive(objs, {body}) \ {body}
    IN  /\ \A obj \in children :
              objs[obj].TypeId \in
                  {"App::Origin", "App::Line", "App::Plane", "Sketcher::SketchObject",
                   "PartDesign::Pad", "PartDesign::Pocket", "PartDesign::Point",
                   "PartDesign::Line", "PartDesign::Plane"}
        /\ \A obj \in children :
              objs[obj].TypeId = "Sketcher::SketchObject" => isSketchSupported(objs, obj)
        /\ \A obj \in children :
              objs[obj].TypeId \in {"PartDesign::Pad", "PartDesign::Pocket"}
                  => objs[obj].Type \in {"Length"}

\* sketchToBezier(sketch) on an object of the document: an object without a
\* GeometryFacadeList raises inside the try block (881-929) and gives -1.
SplineOf(objs, sketch) ==
    IF sketch = NoObject \/ objs[sketch].TypeId # "Sketcher::SketchObject"
    THEN Unsupported
    ELSE sketchToBezier(objs[sketch].Geometry)

-----------------------------------------------------------------------------
(* createPovCode, Exporter.py 243-875.  The six flags travel as one record. *)
(* The tabs that indent a child's code (replace("\n", "\n\t")) are not      *)
(* tokens and are left out.                                                 *)

Flags(expPlacement, expPigment, expPhotons, expClose, expLabel, expMeshDef) ==
    [expPlacement |-> expPlacement, expPigment |-> expPigment,
     expPhotons |-> expPhotons, expClose |-> expClose, expLabel |-> expLabel,
     expMeshDef |-> expMeshDef]

AllTrue == Flags(TRUE, TRUE, TRUE, TRUE, TRUE, TRUE)

\* A boolean that hands its own expPlacement and expClose on to its children.
ChildFlagsHandedOn(f) == f

\* 351-353, 362-364, 373-375, 414-416, 665-667: the flags a boolean, a part or
\* a polar array compiles its children with.
ChildFlags(f) == [f EXCEPT !.expPlacement = TRUE, !.expClose = TRUE]

\* 503-505: the flags an orthogonal array compiles its base with.
OrthoChildFlags(f) ==
    [f EXCEPT !.expPlacement = TRUE, !.expClose = TRUE, !.expMeshDef = TRUE]

\* 574-576: the flags a clone compiles its sources with.
CloneChildFlags == Flags(FALSE, FALSE, FALSE, FALSE, FALSE, TRUE)

\* 269-272.
LabelCode(objs, fcObj, f) ==
    IF f.expLabel
    THEN <<[k |-> "label", n |-> fcObj, v |-> stringCorrection(objs[fcObj].Label)]>>
    ELSE <<>>

\* 274-345: the analytic primitives.
IsPrimitive(typeId) ==
    typeId \in {"Part::Box", "Part::Sphere", "Part::Ellipsoid", "Part::Cone",
                "Part::Cylinder", "Part::Torus", "Part::Plane"}

PrimitiveCode(objs, fcObj) ==
    LET o == objs[fcObj]
    IN  CASE o.TypeId = "Part::Box" ->
                <<Open("box", fcObj, <<o.Length, o.Width, o.Height>>)>>
          [] o.TypeId = "Part::Sphere" ->
                <<Open("sphere", fcObj, <<o.Radius>>)>>
          [] o.TypeId = "Part::Ellipsoid" ->
                <<Open("sphere", fcObj, <<1>>),
                  [k |-> "scale", n |-> fcObj, v |-> Vec(o.Radius2, o.Radius3, o.Radius1)]>>
          [] o.TypeId = "Part::Cone" ->
                <<Open("cone", fcObj, <<o.Radius1, o.Height, o.Radius2>>)>>
          [] o.TypeId = "Part::Cylinder" ->
                <<Open("cylinder", fcObj, <<o.Height, o.Radius>>)>>
          [] o.TypeId = "Part::Torus" ->
                <<Open("torus", fcObj, <<o.Radius1, o.Radius2>>)>>
          [] o.TypeId = "Part::Plane" ->
                <<Open("polygon", fcObj, <<o.Length, o.Width>>)>>

\* 347-378: the keyword of a boolean combinator.
BooleanKeyword(typeId) ==
    CASE typeId = "Part::Cut" -> "difference"
      [] typeId \in {"Part::MultiFuse", "Part::Fuse", "Part::Compound"} -> "merge"
      [] typeId \in {"Part::MultiCommon", "Part::Common"} -> "intersection"
      [] OTHER -> ""

\* 626-656: the image plane with its own image_map pigment.
ImagePlaneCode(objs, fcObj) ==
    LET o == objs[fcObj]
    IN  <<Open("polygon", fcObj, <<o.XSize, o.YSize>>),
          [k |-> "image_map", n |-> fcObj, v |-> o.ImageFile],
          [k |-> "translate", n |-> fcObj, v |-> <<"-", o.XSize, o.YSize>>]>>

\* 765-843: the three light sources.
IsLight(objs, fcObj) ==
    /\ objs[fcObj].TypeId = "Part::FeaturePython"
    /\ \/ startswith(fcObj, "PointLight")
       \/ startswith(fcObj, "AreaLight")
       \/ startswith(fcObj, "SpotLight")

LightCode(objs, fcObj) ==
    LET o    == objs[fcObj]
        fade == IF o.FadeDistance # 0 /\ o.FadePower # 0
                THEN <<[k |-> "fade", n |-> fcObj, v |-> <<o.FadeDistance, o.FadePower>>]>>
                ELSE <<>>
        kind == IF startswith(fcObj, "PointLight") THEN <<>>
                ELSE IF startswith(fcObj, "AreaLight")
                THEN <<[k |-> "area_light", n |-> fcObj,
                        v |-> <<o.Length, o.Width, o.LengthLights, o.WidthLights>>]>>
                ELSE <<[k |-> "spotlight", n |-> fcObj,
                        v |-> <<o.Radius, o.FallOff, o.Tightness>>]>>
    IN  <<Open("light_source", fcObj, o.Color)>> \o kind \o fade

\* The four clauses an object can get from its own properties, each as the
\* flags ask for it: 853-870, 439-460, 529-546.
Clauses(self, fcObj, f) ==
    [pigment  |-> IF f.expPigment THEN getMaterial(self, fcObj) ELSE Val(<<>>),
     photons  |-> IF f.expPhotons THEN getPhotons(self, fcObj) ELSE Val(<<>>),
     rotation |-> IF f.expPlacement THEN getRotation(self.objs, fcObj) ELSE Val(<<>>),
     translation |-> IF f.expPlacement THEN getTranslation(self.objs, fcObj) ELSE <<>>]

ClauseRaised(c) == c.pigment.raised \/ c.photons.raised \/ c.rotation.raised

\* 851-875: the clauses every branch that does not return early ends with.
TrailingClauses(fcObj, f, c) ==
    IF ClauseRaised(c) THEN Exc
    ELSE Val(c.pigment.v \o c.photons.v \o c.rotation.v \o c.translation
             \o (IF f.expClose THEN <<Close(fcObj)>> ELSE <<>>))

\* 385-400: the axis of a polar array divided by its highest component;
\* dividing by 0.0 raises ZeroDivisionError.
PolarAxis(o) ==
    LET highestAxis == CHOOSE m \in {o.Axis.x, o.Axis.y, o.Axis.z} :
                           \A c \in {o.Axis.x, o.Axis.y, o.Axis.z} : c <= m
    IN  IF highestAxis = 0 THEN Exc
        ELSE Val([num |-> o.Axis, den |-> highestAxis])

\* 410-412, 499-501: the name an array declares its base under.
DeclareName(objs, child) ==
    <<stringCorrection(capitalize(objs[child].Label)), "_", child[1], child[2]>>

Directive(fcObj, name, val) == [k |-> "declare", n |-> fcObj, name |-> name, val |-> val]

\* 419-463: the loop of a polar array, after the declaration of its base.
PolarLoop(objs, fcObj, axis, c) ==
    LET o == objs[fcObj]
        centred == o.Center.x # 0 \/ o.Center.y # 0 \/ o.Center.z # 0
    IN  IF ClauseRaised(c) THEN Exc
        ELSE Val(
            <<Directive(fcObj, "i", <<0>>),
              Directive(fcObj, "endNo", <<o.NumberPolar>>),
              Directive(fcObj, "axis", <<axis.v>>),
              Directive(fcObj, "arrAngle", <<o.Angle>>),
              [k |-> "while", n |-> fcObj, v |-> <<"i", "<", "endNo">>],
              Open("object", fcObj, DeclareName(objs, o.Base))>>
            \o (IF centred THEN <<[k |-> "translate", n |-> fcObj, v |-> <<"-", o.Center>>]>>
                ELSE <<>>)
            \o <<Directive(fcObj, "rotAngle", <<"i", "*", "arrAngle", "/", "endNo">>),
                 [k |-> "matrix", n |-> fcObj, v |-> <<"vaxis_rotate", "axis", "rotAngle">>]>>
            \o (IF centred THEN <<[k |-> "translate", n |-> fcObj, v |-> <<"+", o.Center>>]>>
                ELSE <<>>)
            \o c.rotation.v
            \o (IF o.IntervalAxis.x # 0 \/ o.IntervalAxis.y # 0 \/ o.IntervalAxis.z # 0
                THEN <<[k |-> "translate", n |-> fcObj, v |-> <<o.IntervalAxis, "*", "i">>]>>
                ELSE <<>>)
            \o c.translation \o c.pigment.v \o c.photons.v
            \o <<Close(fcObj),
                 Directive(fcObj, "i", <<"i", "+", 1>>),
                 [k |-> "end", n |-> fcObj]>>)

\* 487-497: a count of 0 is taken as 1.
OrthoNumber(number) == IF number = 0 THEN 1 ELSE number

\* 508-555: the three nested loops of an orthogonal array.
OrthoLoop(objs, fcObj, c) ==
    LET o == objs[fcObj]
        while(i, num) == [k |-> "while", n |-> fcObj, v |-> <<i, "<", num>>]
    IN  IF ClauseRaised(c) THEN Exc
        ELSE Val(
            <<Directive(fcObj, "intervalX", <<o.IntervalX>>),
              Directive(fcObj, "intervalY", <<o.IntervalY>>),
              Directive(fcObj, "intervalZ", <<o.IntervalZ>>),
              Directive(fcObj, "numX", <<OrthoNumber(o.NumberX)>>),
              Directive(fcObj, "ix", <<0>>), while("ix", "numX"),
              Directive(fcObj, "numY", <<OrthoNumber(o.NumberY)>>),
              Directive(fcObj, "iy", <<0>>), while("iy", "numY"),
              Directive(fcObj, "numZ", <<OrthoNumber(o.NumberZ)>>),
              Directive(fcObj, "iz", <<0>>), while("iz", "numZ"),
              Open("object", fcObj, DeclareName(objs, o.Base)),
              [k |-> "translate", n |-> fcObj, v |-> <<"intervalX", "*", "ix">>],
              [k |-> "translate", n |-> fcObj, v |-> <<"intervalY", "*", "iy">>],
              [k |-> "translate", n |-> fcObj, v |-> <<"intervalZ", "*", "iz">>]>>
            \o c.translation \o c.rotation.v \o c.pigment.v \o c.photons.v
            \o <<Close(fcObj),
                 Directive(fcObj, "iz", <<"iz", "+", 1>>), [k |-> "end", n |-> fcObj],
                 Directive(fcObj, "iy", <<"iy", "+", 1>>), [k |-> "end", n |-> fcObj],
                 Directive(fcObj, "ix", <<"ix", "+", 1>>), [k |-> "end", n |-> fcObj]>>)

\* 597-608: the heights of an extrusion's prism, in units of 0.0001 mm.
ExtrusionHeights(o) ==
    LET end0   == o.LengthFwd * Mm
        end1   == IF o.Symmetric THEN end0 \div 2 ELSE end0
        start1 == (IF o.Symmetric THEN -end1 ELSE 0) - o.LengthRev * Mm
    IN  IF ~o.Reversed THEN [startHeight |-> -start1, endHeight |-> -end1]
        ELSE [startHeight |-> start1, endHeight |-> end1]

\* The heights without the inversion for a pocket.
PadHeightsSameDirection(o) ==
    LET start0 == IF o.TypeId = "PartDesign::Pocket" THEN -1 ELSE 0
        end0   == o.Length * Mm
        end1   == IF o.Midplane THEN end0 \div 2 ELSE end0
        start1 == IF o.Midplane THEN -end1 ELSE start0
    IN  IF ~o.Reversed THEN [startHeight |-> -start1, endHeight |-> -end1]
        ELSE [startHeight |-> start1, endHeight |-> end1]

\* 706-718: the heights of a pad's or a pocket's prism, in units of 0.0001 mm.
PadHeights(o) ==
    LET pocket == o.TypeId = "PartDesign::Pocket"
        start0 == IF pocket THEN -1 ELSE 0
        end0   == o.Length * Mm
        end1   == IF o.Midplane THEN end0 \div 2 ELSE end0
        start1 == IF o.Midplane THEN -end1 ELSE start0
        start2 == IF ~o.Reversed THEN -start1 ELSE start1
        end2   == IF ~o.Reversed THEN -end1 ELSE end1
    IN  IF pocket THEN [startHeight |-> -start2, endHeight |-> -end2]
        ELSE [startHeight |-> start2, endHeight |-> end2]

\* "prism { bezier_spline start, end, count <points>".
PrismCode(fcObj, heights, spline) ==
    <<Open("prism", fcObj,
           <<heights.startHeight, heights.endHeight, spline.numOfPoints>>),
      [k |-> "spline", n |-> fcObj, v |-> spline.povSpline]>>

-----------------------------------------------------------------------------
(* The dispatch of createPovCode.  What a branch needs of other calls (the  *)
(* spline of its sketch, the code of its children, the code of createMesh,  *)
(* the clauses of the object) is handed to it as an argument.               *)

IsArray(objs, fcObj) ==
    objs[fcObj].TypeId = "Part::FeaturePython" /\ startswith(fcObj, "Array")

IsClone(objs, fcObj) ==
    objs[fcObj].TypeId = "Part::FeaturePython" /\ startswith(fcObj, "Clone")

IsPadPocket(objs, fcObj) ==
    objs[fcObj].TypeId \in {"PartDesign::Pad", "PartDesign::Pocket"}

\* 589, 693: the sketch handed to sketchToBezier; Profile[0] of an empty
\* Profile raises IndexError.
ProfileSketch(objs, fcObj) ==
    IF objs[fcObj].TypeId = "Part::Extrusion" THEN Val(objs[fcObj].Base)
    ELSE IF IsPadPocket(objs, fcObj)
    THEN IF objs[fcObj].Profile = <<>> THEN Exc ELSE Val(objs[fcObj].Profile[1])
    ELSE Val(NoObject)

\* 591: the extrusion is written as a mesh.
ExtrusionAsMesh(objs, fcObj, spline) ==
    ~isExtrudeSupported(objs, fcObj) \/ spline.unsupported

\* 695-699: the pad or pocket is written as a mesh.
PadPocketAsMesh(objs, fcObj, spline) ==
    \/ ~isSketchSupported(objs, objs[fcObj].Profile[1])
    \/ spline.unsupported
    \/ ~isPadPocketSupported(objs, fcObj)

\* What a branch hands back: the code so far (label included), what the calls
\* below appended to the mesh file, whether an exception left the branch,
\* whether the branch returned by itself, and the flags as the branch left
\* them for the trailing clauses.
Branch(povCode, mesh, f) ==
    [code |-> povCode, mesh |-> mesh, raised |-> FALSE, early |-> FALSE, f |-> f]

Early(povCode, mesh, f) ==
    [code |-> povCode, mesh |-> mesh, raised |-> FALSE, early |-> TRUE, f |-> f]

BranchRaised(mesh, f) ==
    [code |-> <<>>, mesh |-> mesh, raised |-> TRUE, early |-> TRUE, f |-> f]

\* The calls of createPovCode a branch makes for other objects, in order.
Calls(children, f) == [j \in 1 .. Len(children) |-> [fcObj |-> children[j], f |-> f]]

\* createPovCode on a Draft clone calling itself instead of the clone's sources.
ChildCallsOfItself(objs, fcObj, f, spline) ==
    IF IsClone(objs, fcObj) THEN Calls(<<fcObj>>, CloneChildFlags)
    ELSE IF objs[fcObj].TypeId = "App::Part"
    THEN Calls(SelectSeq(objs[fcObj].OutList, LAMBDA c : objs[c].ViewObject.Visibility),
               ChildFlags(f))
    ELSE Calls(objs[fcObj].OutList, ChildFlags(f))

ChildCalls(objs, fcObj, f, spline) ==
    LET o == objs[fcObj]
    IN  IF BooleanKeyword(o.TypeId) # "" THEN Calls(o.OutList, ChildFlags(f))
        ELSE IF IsArray(objs, fcObj)
        THEN IF o.ArrayType = "polar"
             THEN IF PolarAxis(o).raised THEN <<>> ELSE Calls(<<o.Base>>, ChildFlags(f))
             ELSE IF o.ArrayType = "ortho" THEN Calls(<<o.Base>>, OrthoChildFlags(f))
             ELSE <<>>
        ELSE IF IsClone(objs, fcObj) THEN Calls(o.Objects, CloneChildFlags)
        ELSE IF o.TypeId = "App::Part"
        THEN Calls(SelectSeq(o.OutList, LAMBDA c : objs[c].ViewObject.Visibility),
                   ChildFlags(f))
        ELSE IF o.TypeId = "PartDesign::Body"
        THEN IF isBodySupported(objs, fcObj) /\ o.Tip # NoObject
             THEN Calls(<<o.Tip>>, AllTrue) ELSE <<>>
        ELSE IF IsPadPocket(objs, fcObj)
        THEN IF /\ o.Profile # <<>>
                /\ ~PadPocketAsMesh(objs, fcObj, spline)
                /\ o.BaseFeature # NoObject
             THEN Calls(<<o.BaseFeature>>, AllTrue) ELSE <<>>
        ELSE <<>>

\* 592-595, 675-678, 700-704, 846-849: label and createMesh code, returned at once.
MeshFallback(label, mesh, f) ==
    IF mesh.raised THEN BranchRaised(mesh.mesh, f)
    ELSE Early(label \o mesh.code, mesh.mesh, f)

\* 380-567: an array of the Draft workbench.
ArrayBranch(objs, fcObj, f, label, children, mesh, c) ==
    LET o == objs[fcObj]
        off == [f EXCEPT !.expPigment = FALSE, !.expPlacement = FALSE,
                         !.expPhotons = FALSE]
        loop == IF o.ArrayType = "polar" THEN PolarLoop(objs, fcObj, PolarAxis(o), c)
                ELSE OrthoLoop(objs, fcObj, c)
    IN  IF o.ArrayType \notin {"polar", "ortho"}
        THEN IF mesh.raised THEN BranchRaised(mesh.mesh, f)
             ELSE Branch(label \o mesh.code \o <<Open("union", fcObj, <<>>)>>, mesh.mesh, off)
        ELSE IF o.ArrayType = "polar" /\ PolarAxis(o).raised THEN BranchRaised(<<>>, f)
        ELSE IF children.raised \/ loop.raised THEN BranchRaised(children.mesh, f)
        ELSE Branch(label
                    \o <<Open("union", fcObj, <<>>),
                         [k |-> "declareObject", n |-> fcObj,
                          name |-> DeclareName(objs, o.Base)]>>
                    \o children.code \o loop.v,
                    children.mesh, off)

\* 569-586: a clone of the Draft workbench.
CloneBranch(objs, fcObj, f, label, children) ==
    LET o == objs[fcObj]
    IN  IF children.raised THEN BranchRaised(children.mesh, f)
        ELSE Branch(label \o children.code
                    \o (IF o.Scale.x # 1 \/ o.Scale.y # 1 \/ o.Scale.z # 1
                        THEN <<[k |-> "scale", n |-> fcObj, v |-> o.Scale]>>
                        ELSE <<>>),
                    children.mesh, f)

\* The extrusion branch with expPlacement switched off for the trailing
\* clauses, so that only the placement of the profile is written.
ExtrusionBranchProfileOnly(objs, fcObj, f, label, spline, mesh, rotation) ==
    IF ExtrusionAsMesh(objs, fcObj, spline) THEN MeshFallback(label, mesh, f)
    ELSE IF rotation.raised THEN BranchRaised(<<>>, f)
    ELSE Branch(label \o PrismCode(fcObj, ExtrusionHeights(objs[fcObj]), spline)
                \o rotation.v \o getTranslation(objs, objs[fcObj].Base),
                <<>>, [f EXCEPT !.expPlacement = FALSE])

\* 588-624: an extrusion of a sketch.
ExtrusionBranch(objs, fcObj, f, label, spline, mesh, rotation) ==
    IF ExtrusionAsMesh(objs, fcObj, spline) THEN MeshFallback(label, mesh, f)
    ELSE IF rotation.raised THEN BranchRaised(<<>>, f)
    ELSE Branch(label \o PrismCode(fcObj, ExtrusionHeights(objs[fcObj]), spline)
                \o rotation.v \o getTranslation(objs, objs[fcObj].Base),
                <<>>, f)

\* 673-689: a PartDesign body.
BodyBranch(objs, fcObj, f, label, children, mesh) ==
    IF ~isBodySupported(objs, fcObj) THEN MeshFallback(label, mesh, f)
    ELSE IF objs[fcObj].Tip = NoObject THEN Early(<<>>, <<>>, f)
    ELSE IF children.raised THEN BranchRaised(children.mesh, f)
    ELSE Branch(label \o <<Open("union", fcObj, <<>>)>> \o children.code,
                children.mesh, f)

\* 744-756: the placement of a pad's prism.
PadPlacement(objs, fcObj, f, rotation) ==
    IF ~f.expPlacement
    THEN Val(<<[k |-> "rotate", n |-> fcObj, v |-> Vec(-90, 0, 0)]>>)
    ELSE IF rotation.raised THEN Exc
    ELSE Val(rotation.v \o getTranslation(objs, objs[fcObj].Profile[1]))

\* 691-762: a pad or a pocket of PartDesign.
PadPocketBranch(objs, fcObj, f, label, spline, children, mesh, placement) ==
    IF PadPocketAsMesh(objs, fcObj, spline) THEN MeshFallback(label, mesh, f)
    ELSE IF children.raised \/ placement.raised THEN BranchRaised(children.mesh, f)
    ELSE Early(label
               \o <<Open(IF objs[fcObj].TypeId = "PartDesign::Pocket"
                         THEN "difference" ELSE "union", fcObj, <<>>)>>
               \o children.code
               \o PrismCode(fcObj, PadHeights(objs[fcObj]), spline)
               \o placement.v \o <<Close(fcObj)>>
               \o (IF f.expClose THEN <<Close(fcObj)>> ELSE <<>>),
               children.mesh, f)

\* 274-849: the if/elif chain.
Dispatch(self, fcObj, f, label, sketch, spline, children, mesh, c) ==
    LET objs == self.objs
        o    == objs[fcObj]
    IN  IF IsPrimitive(o.TypeId)
        THEN Branch(label \o PrimitiveCode(objs, fcObj), <<>>, f)
        ELSE IF BooleanKeyword(o.TypeId) # ""
        THEN IF children.raised THEN BranchRaised(children.mesh, f)
             ELSE Branch(label \o <<Open(BooleanKeyword(o.TypeId), fcObj, <<>>)>>
                         \o children.code, children.mesh, f)
        ELSE IF IsArray(objs, fcObj)
        THEN ArrayBranch(objs, fcObj, f, label, children, mesh, c)
        ELSE IF IsClone(objs, fcObj) THEN CloneBranch(objs, fcObj, f, label, children)
        ELSE IF o.TypeId = "Part::Extrusion"
        THEN ExtrusionBranch(objs, fcObj, f, label, spline, mesh,
                             getRotation(objs, o.Base))
        ELSE IF o.TypeId = "Image::ImagePlane"
        THEN Branch(label \o ImagePlaneCode(objs, fcObj), <<>>,
                    [f EXCEPT !.expPigment = FALSE])
        ELSE IF o.TypeId = "App::Part"
        THEN IF children.raised THEN BranchRaised(children.mesh, f)
             ELSE Branch(label \o <<Open("union", fcObj, <<>>)>> \o children.code,
                         children.mesh, [f EXCEPT !.expPigment = FALSE])
        ELSE IF o.TypeId = "PartDesign::Body"
        THEN BodyBranch(objs, fcObj, f, label, children, mesh)
        ELSE IF IsPadPocket(objs, fcObj)
        THEN IF sketch.raised THEN BranchRaised(<<>>, f)
             ELSE PadPocketBranch(objs, fcObj, f, label, spline, children, mesh,
                                  PadPlacement(objs, fcObj, f, getRotation(objs, sketch.v)))
        ELSE IF IsLight(objs, fcObj)
        THEN Branch(label \o LightCode(objs, fcObj), <<>>,
                    [f EXCEPT !.expPigment = FALSE])
        ELSE MeshFallback(label, mesh, f)

\* 851-875: the branch's code, then the trailing clauses unless the branch
\* returned by itself.
Statement(fcObj, branch, trailing) ==
    IF branch.raised THEN Raised(branch.mesh)
    ELSE IF branch.early THEN Ret(branch.code, branch.mesh)
    ELSE IF trailing.raised THEN Raised(branch.mesh)
    ELSE Ret(branch.code \o trailing.v, branch.mesh)

\* The clauses are those of the flags as the branch left them.
Trailed(self, fcObj, branch) ==
    Statement(fcObj, branch,
              TrailingClauses(fcObj, branch.f, Clauses(self, fcObj, branch.f)))

RECURSIVE createPovCode(_, _, _)

\* "for child in children: ... createPovCode(child, ...)": the codes in order,
\* up to the first call that raises.
Joined(first, rest) ==
    IF first.raised THEN first
    ELSE [code |-> first.code \o rest.code, mesh |-> first.mesh \o rest.mesh,
          raised |-> rest.raised]

RECURSIVE CompileEach(_, _)
CompileEach(self, calls) ==
    IF calls = <<>> THEN Ret(<<>>, <<>>)
    ELSE Joined(createPovCode(self, Head(calls).fcObj, Head(calls).f),
                CompileEach(self, Tail(calls)))

WithSpline(self, fcObj, f, sketch, spline) ==
    Trailed(self, fcObj,
            Dispatch(self, fcObj, f, LabelCode(self.objs, fcObj, f), sketch, spline,
                     CompileEach(self, ChildCalls(self.objs, fcObj, f, spline)),
                     createMesh(self, fcObj, f),
                     Clauses(self, fcObj, f)))

WithSketch(self, fcObj, f, sketch) ==
    WithSpline(self, fcObj, f, sketch,
               IF sketch.raised THEN Unsupported ELSE SplineOf(self.objs, sketch.v))

createPovCode(self, fcObj, f) ==
    WithSketch(self, fcObj, f, ProfileSketch(self.objs, fcObj))


-----------------------------------------------------------------------------
(* Documents.  Object builds an object with the defaults FreeCAD gives a    *)
(* new object; the documents of the model are parts of one Arena that has   *)
(* an object for every branch of createPovCode.                             *)

Placement(base, axis, angle) == [Base |-> base, Rotation |-> [Axis |-> axis, Angle |-> angle]]

Origin == Vec(0, 0, 0)

ZAxis == Vec(0, 0, 1)

Object(stem, number, typeId) ==
    [Name |-> <<stem, number>>, TypeId |-> typeId, Label |-> stem,
     OutList |-> <<>>, Placement |-> Placement(Origin, ZAxis, 0),
     ViewObject |-> [Object |-> <<stem, number>>, Visibility |-> TRUE,
                     Transparency |-> 0, ShapeColor |-> "grey",
                     AmbientColor |-> "baseline", EmissiveColor |-> "black",
                     SpecularColor |-> "black"],
     isMesh |-> FALSE, hasShape |-> TRUE,
     Topology |-> [vertices |-> 3, triangles |-> 1],
     Length |-> 10, Width |-> 5, Height |-> 2,
     Radius |-> 1, Radius1 |-> 2, Radius2 |-> 1, Radius3 |-> 3,
     ArrayType |-> "", Base |-> NoObject, Center |-> Origin, Axis |-> ZAxis,
     IntervalAxis |-> Origin, NumberPolar |-> 0, Angle |-> 0,
     IntervalX |-> Vec(1, 0, 0), IntervalY |-> Vec(0, 1, 0), IntervalZ |-> Vec(0, 0, 1),
     NumberX |-> 1, NumberY |-> 1, NumberZ |-> 1,
     Objects |-> <<>>, Scale |-> Vec(1, 1, 1),
     DirMode |-> "Normal", TaperAngle |-> 0, TaperAngleRev |-> 0,
     LengthFwd |-> 0, LengthRev |-> 0, Symmetric |-> FALSE, Reversed |-> FALSE,
     ImageFile |-> "", XSize |-> 0, YSize |-> 0,
     Tip |-> NoObject, Profile |-> <<>>, BaseFeature |-> NoObject,
     Type |-> "Length", Midplane |-> FALSE, Geometry |-> <<>>,
     Color |-> "white", FadeDistance |-> 0, FadePower |-> 0,
     LengthLights |-> 2, WidthLights |-> 2, FallOff |-> 0, Tightness |-> 0]

Nm(stem) == <<stem, "">>

\* An object whose OutList is its children, as for the booleans and the part.
Parent(stem, number, typeId, children) ==
    [Object(stem, number, typeId) EXCEPT !.OutList = children]

Array(number, arrayType, base) ==
    [Object("Array", number, "Part::FeaturePython") EXCEPT
        !.ArrayType = arrayType, !.Base = base, !.OutList = <<base>>]

PolarArray(number, base, count, angle, axis) ==
    [Array(number, "polar", base) EXCEPT
        !.NumberPolar = count, !.Angle = angle, !.Axis = axis]

Clone(number, sources) ==
    [Object("Clone", number, "Part::FeaturePython") EXCEPT
        !.Objects = sources, !.OutList = sources]

Sketch(stem, lines) ==
    [Object(stem, "", "Sketcher::SketchObject") EXCEPT !.Geometry = lines]

Extrusion(number, base, fwd) ==
    [Object("Extrude", number, "Part::Extrusion") EXCEPT
        !.Base = base, !.OutList = <<base>>, !.LengthFwd = fwd]

PadPocket(stem, number, typeId, profile, baseFeature) ==
    [Object(stem, number, typeId) EXCEPT
        !.Profile = profile, !.BaseFeature = baseFeature,
        !.OutList = profile \o (IF baseFeature = NoObject THEN <<>> ELSE <<baseFeature>>)]

Body(number, members, tip) ==
    [Object("Body", number, "PartDesign::Body") EXCEPT !.OutList = members, !.Tip = tip]

BSplineCurve(s, e) == Curve("BSplineCurve", s, e)

Triangle == <<LineSegment(P0, P1), LineSegment(P1, P2), LineSegment(P2, P0)>>

\* The objects in document order.
ArenaObjects ==
    << Object("Box", "", "Part::Box"),
       [Object("Box", "001", "Part::Box") EXCEPT
           !.Placement = Placement(Vec(1, 2, 3), ZAxis, 6),
           !.ViewObject.ShapeColor = "red", !.ViewObject.Transparency = 50],
       [Object("Sphere", "", "Part::Sphere") EXCEPT
           !.ViewObject.EmissiveColor = "white"],
       Object("Ellipsoid", "", "Part::Ellipsoid"),
       [Object("Cone", "", "Part::Cone") EXCEPT
           !.Placement = Placement(Origin, Vec(1, 0, 0), 3)],
       Object("Cylinder", "", "Part::Cylinder"),
       Object("Torus", "", "Part::Torus"),
       Object("Plane", "", "Part::Plane"),
       Object("Feature", "", "Part::Feature"),
       [Object("Feature", "001", "Part::Feature") EXCEPT
           !.Label = "Moved",
           !.Placement = Placement(Vec(0, 0, 4), Vec(0, 1, 0), 6)],
       [Object("Empty", "", "Part::Feature") EXCEPT
           !.Topology = [vertices |-> 0, triangles |-> 0]],
       [Object("Shapeless", "", "App::FeaturePython") EXCEPT !.hasShape = FALSE],
       [Object("Mesh", "", "Mesh::Feature") EXCEPT !.isMesh = TRUE, !.hasShape = FALSE],
       Sketch("Sketch", Triangle),
       Sketch("SketchCircle", <<Circle(P0, Mm)>>),
       Sketch("SketchSpline", <<BSplineCurve(P0, P1), LineSegment(P1, P0)>>),
       Sketch("SketchOpen", <<LineSegment(P0, P1), LineSegment(P1, P2)>>),
       Parent("Cut", "", "Part::Cut", <<Nm("Box"), Nm("Sphere")>>),
       Parent("Cut", "001", "Part::Cut", <<Nm("Feature"), Nm("Empty")>>),
       Parent("Cut", "002", "Part::Cut", <<>>),
       Parent("Fuse", "", "Part::Fuse", <<<<"Box", "001">>, Nm("Cone")>>),
       Parent("MultiFuse", "", "Part::MultiFuse",
              <<Nm("Box"), Nm("Cylinder"), Nm("Torus")>>),
       Parent("Compound", "", "Part::Compound", <<Nm("Plane")>>),
       Parent("Common", "", "Part::Common", <<Nm("Torus"), Nm("Ellipsoid")>>),
       Parent("Common", "001", "Part::Common", <<Nm("Cut"), Nm("Cone")>>),
       Parent("MultiCommon", "", "Part::MultiCommon",
              <<Nm("Sphere"), <<"Clone", "001">>, <<"Feature", "001">>>>),
       PolarArray("", Nm("Box"), 4, 360, ZAxis),
       [PolarArray("001", Nm("Feature"), 3, 180, Vec(2, 0, 1)) EXCEPT
           !.Center = Vec(1, 0, 0), !.IntervalAxis = Vec(0, 0, 1),
           !.Placement = Placement(Vec(5, 0, 0), ZAxis, 6)],
       PolarArray("002", Nm("Box"), 4, 360, Origin),
       PolarArray("003", Nm("Box"), 4, 360, Vec(0, 0, -1)),
       [Array("004", "ortho", Nm("Sphere")) EXCEPT !.NumberX = 2, !.NumberY = 0],
       Array("005", "circular", Nm("Box")),
       [Array("006", "circular", Nm("Box")) EXCEPT
           !.Topology = [vertices |-> 0, triangles |-> 0]],
       [Array("007", "ortho", Nm("Box")) EXCEPT
           !.NumberX = 2, !.Placement = Placement(Vec(1, 2, 3), ZAxis, 6)],
       Clone("", <<>>),
       [Clone("001", <<Nm("Box")>>) EXCEPT !.Scale = Vec(2, 1, 1)],
       Clone("002", <<Nm("Box"), Nm("Sphere")>>),
       Clone("003", <<Nm("Feature")>>),
       Clone("004", <<Nm("Empty")>>),
       Clone("005", <<Nm("Torus")>>),
       [Extrusion("", Nm("Sketch"), 10) EXCEPT
           !.Placement = Placement(Vec(0, 0, 7), ZAxis, 0)],
       [Extrusion("001", Nm("SketchCircle"), 10) EXCEPT
           !.Symmetric = TRUE, !.Reversed = TRUE, !.LengthRev = 1],
       [Extrusion("002", Nm("Sketch"), 10) EXCEPT !.TaperAngle = 5],
       Extrusion("003", Nm("Box"), 10),
       Extrusion("004", Nm("SketchOpen"), 10),
       [Object("ImagePlane", "", "Image::ImagePlane") EXCEPT
           !.ImageFile = "photo.png", !.XSize = 4, !.YSize = 2],
       PadPocket("Pad", "", "PartDesign::Pad", <<Nm("Sketch")>>, NoObject),
       [PadPocket("Pocket", "", "PartDesign::Pocket", <<Nm("SketchCircle")>>, Nm("Pad"))
           EXCEPT !.Midplane = TRUE],
       PadPocket("Pad", "001", "PartDesign::Pad", <<>>, NoObject),
       PadPocket("Pad", "002", "PartDesign::Pad", <<Nm("SketchSpline")>>, NoObject),
       [PadPocket("Pad", "003", "PartDesign::Pad", <<Nm("Sketch")>>, NoObject)
           EXCEPT !.Type = "UpToLast"],
       Body("", <<Nm("Sketch"), Nm("Pad"), Nm("SketchCircle"), Nm("Pocket")>>, Nm("Pocket")),
       Body("001", <<>>, NoObject),
       Body("002", <<Nm("SketchSpline"), <<"Pad", "002">>>>, <<"Pad", "002">>),
       Parent("Part", "", "App::Part", <<Nm("Cylinder"), Nm("Hidden"), Nm("Cone")>>),
       Parent("Part", "001", "App::Part", <<Nm("Fuse")>>),
       [Object("Hidden", "", "Part::Box") EXCEPT !.ViewObject.Visibility = FALSE],
       Parent("Group", "", "App::DocumentObjectGroup", <<Nm("Plane")>>),
       [Object("PointLight", "", "Part::FeaturePython") EXCEPT
           !.FadeDistance = 10, !.FadePower = 2],
       Object("AreaLight", "", "Part::FeaturePython"),
       [Object("SpotLight", "", "Part::FeaturePython") EXCEPT
           !.Radius = 15, !.FallOff = 20, !.Tightness = 10] >>

ArenaNames == {ArenaObjects[i].Name : i \in 1 .. Len(ArenaObjects)}

\* The document that has the objects of the given names.
Document(names) ==
    [n \in names |->
        ArenaObjects[CHOOSE i \in 1 .. Len(ArenaObjects) : ArenaObjects[i].Name = n]]

Arena == Document(ArenaNames)

\* The objects of a document, in document order (App.ActiveDocument.Objects).
Objects(objs) ==
    LET all == [i \in 1 .. Len(ArenaObjects) |-> ArenaObjects[i].Name]
    IN  SelectSeq(all, LAMBDA n : n \in DOMAIN objs)


-----------------------------------------------------------------------------
(* Specification of createPovCode: one call on one object of the Arena,     *)
(* under any of the 64 combinations of the six flags.                       *)

\* __init__, 41-43: the default shape colour of the preferences.
DefaultShapeColor == "grey"

\* self, as the helpers read it.
Self(o, inc, tex) ==
    [objs |-> o, incContent |-> inc, texIncContent |-> tex,
     DefaultShapeColor |-> DefaultShapeColor]

\* The user's include file, comments removed, and the texture include file.
Resources ==
    { [inc |-> <<>>, tex |-> <<>>],
      [inc |-> Declare("Box", <<"_", "material">>) \o <<"\n">>
                   \o Declare("Feature", <<"_", "photons">>),
       tex |-> Declare("Box", <<"_", "material", "_", "hollow">>) \o <<"\n">>
                   \o Declare("Cone", <<"_", "finish">>)],
      [inc |-> Declare("Box", <<"_", "photons">>) \o <<"\n">>
                   \o Declare("Box", <<"_", "photons", "_", "reflection">>)
                   \o <<"\n", "camera">>,
       tex |-> Declare("Sphere", <<"_", "texture">>) \o <<"\n">>
                   \o Declare("Feature", <<"_", "pigment">>)],
      [inc |-> Declare("Cone", <<"_", "material">>),
       tex |-> Declare("Cone", <<"_", "finish">>)] }

FlagSets == [expPlacement : BOOLEAN, expPigment : BOOLEAN, expPhotons : BOOLEAN,
             expClose : BOOLEAN, expLabel : BOOLEAN, expMeshDef : BOOLEAN]

CompileInit ==
    /\ doc = Arena
    /\ \E r \in Resources : incContent = Str(r.inc) /\ texIncContent = Str(r.tex)
    /\ meshFileContent = <<>>
    /\ call = <<>>
    /\ returned = <<>>
    /\ compilePc = "ready"
    /\ TextIdle /\ SketchIdle /\ LoopIdle /\ ExportIdle /\ StepIdle

\* self.createPovCode(fcObj, expPlacement, ..., expMeshDef)
CreatePovCodeCall ==
    /\ compilePc = "ready"
    /\ \E fcObj \in DOMAIN doc, f \in FlagSets :
          LET r == createPovCode(Self(doc, incContent, texIncContent), fcObj, f)
          IN  /\ call' = [fcObj |-> fcObj, f |-> f]
              /\ returned' = r.code
              /\ meshFileContent' = meshFileContent \o r.mesh
              /\ compilePc' = IF r.raised THEN "raised" ELSE "returned"
    /\ UNCHANGED <<doc, incContent, texIncContent, textVars, sketchVars,
                   loopVars, exportVars, stepVars>>

CompileNext == CreatePovCodeCall

SpecCompile == CompileInit /\ [][CompileNext]_vars

-----------------------------------------------------------------------------
(* Specification of the polar array: createPovCode on one polar array of a  *)
(* box, then POV-Ray reading the returned code directive by directive.      *)

MaxCount == 4

PolarDocument(count, angle, axis) ==
    [n \in {Nm("Box"), Nm("Array")} |->
        IF n = Nm("Box") THEN Object("Box", "", "Part::Box")
        ELSE [PolarArray("", Nm("Box"), count, angle, axis) EXCEPT
                 !.Placement = Placement(Vec(5, 0, 0), ZAxis, 0)]]

PolarInit ==
    /\ \E count \in 0 .. MaxCount, angle \in {90, 180, 360},
          axis \in {ZAxis, Vec(2, 0, 1), Vec(-1, -2, -2), Vec(0, 0, -1), Origin} :
          doc = PolarDocument(count, angle, axis)
    /\ incContent = Str(<<>>)
    /\ texIncContent = Str(<<>>)
    /\ meshFileContent = <<>>
    /\ call = <<>>
    /\ returned = <<>>
    /\ compilePc = "ready"
    /\ reading = 0
    /\ env = <<>>
    /\ instances = <<>>
    /\ TextIdle /\ SketchIdle /\ ExportIdle /\ StepIdle

Compiled(fcObj, f, r) ==
    /\ call' = [fcObj |-> fcObj, f |-> f]
    /\ returned' = r.code
    /\ meshFileContent' = meshFileContent \o r.mesh
    /\ compilePc' = IF r.raised THEN "raised" ELSE "returned"
    /\ reading' = 1

\* self.createPovCode(array, ...) with label, photons and mesh definition on.
CompilePolarArray ==
    /\ compilePc = "ready"
    /\ \E f \in {g \in FlagSets : g.expLabel /\ g.expPhotons /\ g.expMeshDef} :
          Compiled(Nm("Array"), f,
                   createPovCode(Self(doc, incContent, texIncContent), Nm("Array"), f))
    /\ UNCHANGED <<doc, incContent, texIncContent, env, instances, textVars,
                   sketchVars, exportVars, stepVars>>

\* The value of the right-hand side of a #declare: a literal, name + number,
\* or name * name / name (kept as an exact fraction).
Eval(val, e) ==
    IF Len(val) = 1 THEN val[1]
    ELSE IF Len(val) = 3 THEN e[val[1]] + val[3]
    ELSE [num |-> e[val[1]] * e[val[3]], den |-> e[val[5]]]

Bind(e, name, value) ==
    [x \in DOMAIN e \cup {name} |-> IF x = name THEN value ELSE e[x]]

\* The #end that closes the #while at position j, and back.
RECURSIVE EndFrom(_, _, _)
EndFrom(povCode, j, depth) ==
    IF povCode[j].k = "end" /\ depth = 0 THEN j
    ELSE EndFrom(povCode, j + 1,
                 IF povCode[j].k = "while" THEN depth + 1
                 ELSE IF povCode[j].k = "end" THEN depth - 1 ELSE depth)

RECURSIVE WhileBefore(_, _, _)
WhileBefore(povCode, j, depth) ==
    IF povCode[j].k = "while" /\ depth = 0 THEN j
    ELSE WhileBefore(povCode, j - 1,
                     IF povCode[j].k = "end" THEN depth + 1
                     ELSE IF povCode[j].k = "while" THEN depth - 1 ELSE depth)

\* The object statement that is open at position j.
RECURSIVE OpenObjectBefore(_, _)
OpenObjectBefore(povCode, j) ==
    IF povCode[j].k = "open" /\ povCode[j].kw = "object" THEN povCode[j].params
    ELSE OpenObjectBefore(povCode, j - 1)

Reading(k) ==
    /\ compilePc = "returned"
    /\ reading \in 1 .. Len(returned)
    /\ returned[reading].k = k

\* "#declare name = value;"
ReadDeclare ==
    /\ Reading("declare")
    /\ env' = Bind(env, returned[reading].name, Eval(returned[reading].val, env))
    /\ reading' = reading + 1
    /\ UNCHANGED <<selfVars, compileVars, instances, textVars, sketchVars, exportVars, stepVars>>

\* "#while (i < endNo)"
ReadWhile ==
    /\ Reading("while")
    /\ reading' = IF env[returned[reading].v[1]] < env[returned[reading].v[3]]
                  THEN reading + 1
                  ELSE EndFrom(returned, reading + 1, 0) + 1
    /\ UNCHANGED <<selfVars, compileVars, env, instances, textVars, sketchVars,
                   exportVars, stepVars>>

\* "#end"
ReadEnd ==
    /\ Reading("end")
    /\ reading' = WhileBefore(returned, reading - 1, 0)
    /\ UNCHANGED <<selfVars, compileVars, env, instances, textVars, sketchVars,
                   exportVars, stepVars>>

\* "transform { matrix <vaxis_rotate(.., axis, rotAngle)> }": the open object
\* is rotated by the current rotAngle about the current axis.
ReadMatrix ==
    /\ Reading("matrix")
    /\ instances' = Append(instances,
                           [object |-> OpenObjectBefore(returned, reading),
                            i |-> env["i"],
                            axis |-> env[returned[reading].v[2]],
                            angle |-> env[returned[reading].v[3]]])
    /\ reading' = reading + 1
    /\ UNCHANGED <<selfVars, compileVars, env, textVars, sketchVars, exportVars, stepVars>>

\* Any other clause.
ReadClause ==
    /\ compilePc = "returned"
    /\ reading \in 1 .. Len(returned)
    /\ returned[reading].k \notin {"declare", "while", "end", "matrix"}
    /\ reading' = reading + 1
    /\ UNCHANGED <<selfVars, compileVars, env, instances, textVars, sketchVars,
                   exportVars, stepVars>>

\* POV-Ray reads on for as long as there is code.
ReadNext ==
    \/ ReadDeclare
    \/ ReadWhile
    \/ ReadEnd
    \/ ReadMatrix
    \/ ReadClause

PolarNext ==
    \/ CompilePolarArray
    \/ ReadNext

SpecPolarArray == PolarInit /\ [][PolarNext]_vars /\ WF_vars(ReadNext)

-----------------------------------------------------------------------------
(* Specification of pad and pocket: a pad over a sketch and a pocket cut     *)
(* into it over the same sketch, both with the same Length, Midplane and    *)
(* Reversed, and createPovCode on either.                                   *)

MaxLength == 4

PadPocketDocument(length, midplane, reversed) ==
    [n \in {Nm("Sketch"), Nm("Pad"), Nm("Pocket")} |->
        IF n = Nm("Sketch") THEN Sketch("Sketch", Triangle)
        ELSE IF n = Nm("Pad")
        THEN [PadPocket("Pad", "", "PartDesign::Pad", <<Nm("Sketch")>>, NoObject) EXCEPT
                 !.Length = length, !.Midplane = midplane, !.Reversed = reversed]
        ELSE [PadPocket("Pocket", "", "PartDesign::Pocket", <<Nm("Sketch")>>, Nm("Pad"))
                 EXCEPT !.Length = length, !.Midplane = midplane, !.Reversed = reversed]]

PadPocketInit ==
    /\ \E length \in 1 .. MaxLength, midplane \in BOOLEAN, reversed \in BOOLEAN :
          doc = PadPocketDocument(length, midplane, reversed)
    /\ incContent = Str(<<>>)
    /\ texIncContent = Str(<<>>)
    /\ meshFileContent = <<>>
    /\ call = <<>>
    /\ returned = <<>>
    /\ compilePc = "ready"
    /\ TextIdle /\ SketchIdle /\ LoopIdle /\ ExportIdle /\ StepIdle

\* self.createPovCode(pad or pocket, ...)
CompilePadPocket ==
    /\ compilePc = "ready"
    /\ \E fcObj \in {Nm("Pad"), Nm("Pocket")}, f \in FlagSets :
          Compiled(fcObj, f, createPovCode(Self(doc, incContent, texIncContent), fcObj, f))
    /\ UNCHANGED <<doc, incContent, texIncContent, env, instances, textVars,
                   sketchVars, exportVars, stepVars>>

PadPocketNext == CompilePadPocket

SpecPadPocket == PadPocketInit /\ [][PadPocketNext]_vars

-----------------------------------------------------------------------------
(* Specification of createMesh: one call on one object that has no POV-Ray  *)
(* counterpart, placed anywhere of MeshPlacements.                          *)

MeshBases == {Origin, Vec(1, 2, 3), Vec(0, 0, -4)}

\* Rotations as <<axis, angle in units of pi/12>>.
MeshRotations ==
    { <<ZAxis, 0>>, <<ZAxis, 6>>, <<ZAxis, 2>>, <<Vec(0, 1, 0), 6>>, <<Vec(1, 0, 0), 3>>,
      <<Vec(1, 1, 0), 6>>, <<Vec(1, 1, 1), 8>> }

MeshObjects ==
    { Object("Feature", "", "Part::Feature"),
      [Object("Mesh", "", "Mesh::Feature") EXCEPT !.isMesh = TRUE, !.hasShape = FALSE],
      [Object("Empty", "", "Part::Feature") EXCEPT
          !.Topology = [vertices |-> 0, triangles |-> 0]] }

MeshDocument(o, base, rotation) ==
    [n \in {o.Name} |-> [o EXCEPT !.Placement = Placement(base, rotation[1], rotation[2])]]

MeshInit ==
    /\ \E o \in MeshObjects, base \in MeshBases, rotation \in MeshRotations :
          doc = MeshDocument(o, base, rotation)
    /\ \E r \in Resources : incContent = Str(r.inc) /\ texIncContent = Str(r.tex)
    /\ meshFileContent = <<>>
    /\ call = <<>>
    /\ returned = <<>>
    /\ compilePc = "ready"
    /\ TextIdle /\ SketchIdle /\ LoopIdle /\ ExportIdle /\ StepIdle

\* self.createMesh(fcObj, expPlacement, ..., expMeshDef)
CreateMeshCall ==
    /\ compilePc = "ready"
    /\ \E fcObj \in DOMAIN doc, f \in FlagSets :
          Compiled(fcObj, f, createMesh(Self(doc, incContent, texIncContent), fcObj, f))
    /\ UNCHANGED <<doc, incContent, texIncContent, env, instances, textVars,
                   sketchVars, exportVars, stepVars>>

MeshNext == CreateMeshCall

SpecMesh == MeshInit /\ [][MeshNext]_vars

-----------------------------------------------------------------------------
(* Specification of the control flow: createPovCode on one object, call by  *)
(* call, and the ordering loops of sketchToBezier iteration by iteration.   *)
(* The code the calls write is left to the specifications above.            *)

MaxDepth == 6

MaxLines == 3

RECURSIVE ListsOver(_, _)
ListsOver(elements, n) ==
    IF n = 0 THEN {<<>>}
    ELSE LET shorter == ListsOver(elements, n - 1)
         IN  shorter \cup {Append(t, g) : t \in {u \in shorter : Len(u) = n - 1},
                                          g \in elements}

StepElements ==
    {LineSegment(P0, P1), LineSegment(P1, P2), LineSegment(P2, P0), LineSegment(P1, P0),
     Circle(P0, Mm), ArcOfCircle(P1, P2, 0, 90), Point(P1),
     Construction(LineSegment(P0, P2))}

\* A createPovCode call that has not returned, and the calls it has still to make.
Frame(c, calls) == [fcObj |-> c.fcObj, f |-> c.f, calls |-> calls]

Top == stack[Len(stack)]

StepInit ==
    /\ \/ /\ doc = Arena
          /\ \E fcObj \in ArenaNames : stack = <<Frame([fcObj |-> fcObj, f |-> AllTrue], <<>>)>>
       \/ /\ \E lines \in ListsOver(StepElements, MaxLines) :
                doc = [Arena EXCEPT ![Nm("Sketch")].Geometry = lines]
          /\ stack = <<Frame([fcObj |-> Nm("Extrude"), f |-> AllTrue], <<>>)>>
    /\ incContent = Str(<<>>)
    /\ texIncContent = Str(<<>>)
    /\ meshFileContent = <<>>
    /\ call = <<>>
    /\ returned = <<>>
    /\ compilePc = "idle"
    /\ sortedSoFar = <<>>
    /\ unsortedLeft = <<>>
    /\ loopStart = <<>>
    /\ stepPc = "enter"
    /\ TextIdle /\ SketchIdle /\ LoopIdle /\ ExportIdle

\* The calls the top call makes, once the spline of its sketch is known.
WithCalls(spline) ==
    [stack EXCEPT ![Len(stack)].calls = ChildCalls(doc, Top.fcObj, Top.f, spline)]

\* 589, 693: the extrusion, pad and pocket call sketchToBezier first; an empty
\* Profile raises and leaves every call on the stack; an object that is no
\* sketch gives -1 at 883.  All other objects go on to their children.
EnterCall ==
    /\ stepPc = "enter"
    /\ LET sketch == ProfileSketch(doc, Top.fcObj)
       IN  IF sketch.raised
           THEN /\ stack' = <<>>
                /\ stepPc' = "raised"
                /\ UNCHANGED <<sortedSoFar, unsortedLeft>>
           ELSE IF sketch.v = NoObject \/ doc[sketch.v].TypeId # "Sketcher::SketchObject"
           THEN /\ stack' = WithCalls(Unsupported)
                /\ stepPc' = "children"
                /\ UNCHANGED <<sortedSoFar, unsortedLeft>>
           ELSE /\ unsortedLeft' = KeptGeometry(doc[sketch.v].Geometry)
                /\ sortedSoFar' = <<>>
                /\ stepPc' = "outer"
                /\ UNCHANGED stack
    /\ UNCHANGED <<loopStart, textVars, sketchVars, selfVars, compileVars, loopVars,
                   exportVars>>

\* 901-904: the first unsorted line opens a loop.
OuterTake ==
    /\ stepPc = "outer"
    /\ unsortedLeft # <<>>
    /\ sortedSoFar' = Append(sortedSoFar, Head(unsortedLeft))
    /\ loopStart' = Head(unsortedLeft)
    /\ unsortedLeft' = Tail(unsortedLeft)
    /\ stepPc' = IF Head(unsortedLeft).type = "Circle" THEN "outer" ELSE "inner"
    /\ UNCHANGED <<stack, textVars, sketchVars, selfVars, compileVars, loopVars, exportVars>>

\* 901, 931-1104: no unsorted line is left; the spline is written and returned.
OuterExit ==
    /\ stepPc = "outer"
    /\ unsortedLeft = <<>>
    /\ stack' = WithCalls(SplineOfOrdered([raised |-> FALSE, sortedLines |-> sortedSoFar]))
    /\ stepPc' = "children"
    /\ UNCHANGED <<sortedSoFar, unsortedLeft, loopStart, textVars, sketchVars, selfVars,
                   compileVars, loopVars, exportVars>>

\* 909-911: the loop is closed.
InnerExit ==
    /\ stepPc = "inner"
    /\ HasEndPoints(loopStart)
    /\ isSamePoint(loopStart.StartPoint, Last(sortedSoFar).EndPoint)
    /\ stepPc' = "outer"
    /\ UNCHANGED <<stack, sortedSoFar, unsortedLeft, loopStart, textVars, sketchVars,
                   selfVars, compileVars, loopVars, exportVars>>

\* The index 913-926 use: unsortedLeft[-1] is the last element.
NextLineI(nxt) == IF nxt.i = -1 THEN Len(unsortedLeft) ELSE nxt.i + 1

\* 928-929: the except clause; sketchToBezier returns -1.
Excepted ==
    /\ stack' = WithCalls(Unsupported)
    /\ stepPc' = "children"
    /\ UNCHANGED <<sortedSoFar, unsortedLeft>>

\* 909-926: one iteration of the inner loop.  The next line is taken out of
\* unsortedLeft, or an exception ends sketchToBezier.
InnerTake ==
    /\ stepPc = "inner"
    /\ IF ~HasEndPoints(loopStart) THEN Excepted
       ELSE /\ ~isSamePoint(loopStart.StartPoint, Last(sortedSoFar).EndPoint)
            /\ LET nxt == getNextLine(unsortedLeft, Last(sortedSoFar))
               IN  IF nxt.raised \/ NextLineI(nxt) = 0 THEN Excepted
                   ELSE /\ sortedSoFar' = Append(sortedSoFar,
                                Directed(Last(sortedSoFar), unsortedLeft[NextLineI(nxt)]))
                        /\ unsortedLeft' = DelAt(unsortedLeft, NextLineI(nxt))
                        /\ UNCHANGED <<stack, stepPc>>
    /\ UNCHANGED <<loopStart, textVars, sketchVars, selfVars, compileVars, loopVars,
                   exportVars>>

\* self.createPovCode(child, ...): the next call of the top call.
CallChild ==
    /\ stepPc = "children"
    /\ Top.calls # <<>>
    /\ Len(stack) < MaxDepth
    /\ stack' = Append([stack EXCEPT ![Len(stack)].calls = Tail(Top.calls)],
                       Frame(Head(Top.calls), <<>>))
    /\ stepPc' = "enter"
    /\ UNCHANGED <<sortedSoFar, unsortedLeft, loopStart, textVars, sketchVars, selfVars,
                   compileVars, loopVars, exportVars>>

\* return povCode
ReturnCall ==
    /\ stepPc = "children"
    /\ Top.calls = <<>>
    /\ stack' = SubSeq(stack, 1, Len(stack) - 1)
    /\ stepPc' = IF Len(stack) = 1 THEN "returned" ELSE "children"
    /\ UNCHANGED <<sortedSoFar, unsortedLeft, loopStart, textVars, sketchVars, selfVars,
                   compileVars, loopVars, exportVars>>

StepNext ==
    \/ EnterCall
    \/ OuterTake
    \/ OuterExit
    \/ InnerExit
    \/ InnerTake
    \/ CallChild
    \/ ReturnCall

SpecSteps == StepInit /\ [][StepNext]_vars /\ WF_vars(StepNext)

-----------------------------------------------------------------------------
(* initExport and startExport, Exporter.py 47-241 *)

\* repairRotation, 1965-1982: every Placement built anew from its own base,
\* axis and angle in degrees.
repairRotation(objs) ==
    [n \in DOMAIN objs |->
        [objs[n] EXCEPT
            !.Placement = [Base |-> @.Base,
                           Rotation |-> RotationAxisDeg(@.Rotation.Axis,
                                                        Degrees(@.Rotation.Angle))]]]

\* hasPartAsParent, 1994-2001.
hasPartAsParent(objs, fcObj) ==
    \E parent \in InList(objs, fcObj) : objs[parent].TypeId = "App::Part"

\* hasBodyAsParent, 2003-2010.
hasBodyAsParent(objs, fcObj) ==
    \E parent \in InList(objs, fcObj) : objs[parent].TypeId = "PartDesign::Body"

\* 161-169: the highest visible objects of the model tree.
firstLayer(objs) ==
    SelectSeq(Objects(objs),
              LAMBDA obj : /\ objs[obj].ViewObject.Visibility
                           /\ objs[obj].TypeId # "App::DocumentObjectGroup"
                           /\ ~hasBodyAsParent(objs, obj)
                           /\ ~hasPartAsParent(objs, obj))

\* getStatistics, 1345-1408: the counts and the camera line;
\* self.incContent.find on None raises AttributeError.
getStatistics(objs, inc) ==
    IF inc.isNone THEN Exc
    ELSE Val([ParentCount |-> Cardinality({n \in DOMAIN objs : InList(objs, n) = {}}),
              total |-> Cardinality(DOMAIN objs),
              userCamera |-> Find(inc.text, <<"camera">>, 0) # -1])

\* getCam, 1566-1632: the camera, commented out if the user's include file
\* has one.
getCam(inc) ==
    <<[k |-> "camera", n |-> NoObject,
       commented |-> Find(inc.text, <<"camera">>, 0) # -1]>>

Include(file) == [k |-> "include", n |-> NoObject, file |-> file]

\* The header with the mesh include decided before any object was compiled,
\* while self.meshFileContent is still "".
FinalPovCodeDecidedFirst(settings, buffer, cam, objPovCode) ==
    <<Tok("header", NoObject), Include("texInc")>>
    \o cam
    \o (IF settings.expLight THEN <<Tok("light", NoObject)>> ELSE <<>>)
    \o <<Include("inc")>>
    \o objPovCode

\* 177-227: the header and the code of the objects.
FinalPovCode(settings, buffer, cam, objPovCode) ==
    <<Tok("header", NoObject), Include("texInc")>>
    \o (IF buffer # <<>> THEN <<Include("mesh")>> ELSE <<>>)
    \o cam
    \o (IF settings.expLight THEN <<Tok("light", NoObject)>> ELSE <<>>)
    \o <<Include("inc")>>
    \o objPovCode

\* What initExport leaves behind: self, the files, how the call ended, the
\* objects startExport took as first layer (none if it was never called) and
\* whether POV-Ray was started.
Left(objs, inc, tex, buffer, fs, outcome, roots, rendered) ==
    [doc |-> objs, incContent |-> inc, texIncContent |-> tex,
     meshFileContent |-> buffer, files |-> fs, outcome |-> outcome,
     firstLayer |-> roots, rendered |-> rendered]

\* renderSettings.meshPath.
MeshPath == "scene_meshes.inc"

\* writeFile, 1896-1905: the pov file after the call; an open or a write that
\* raises is caught and leaves the file as it was.
writeFile(fs, povPath, povText) ==
    IF povPath \in fs.lockedLater THEN fs.pov ELSE povText

\* 227-241: the mesh file, the pov file (writeFile), the ini file (openPovRay);
\* none of them if a createPovCode raised or if the open at 236 raises.
FilesWritten(objs, settings, fs, inc, tex, buffer, compiled) ==
    IF compiled.raised \/ (buffer # <<>> /\ MeshPath \in fs.lockedLater)
    THEN Left(objs, inc, tex, buffer, fs, "raised", firstLayer(objs), FALSE)
    ELSE Left(objs, inc, tex, buffer,
              [fs EXCEPT !.pov = writeFile(fs, settings.povPath,
                                     FinalPovCode(settings, buffer, getCam(inc),
                                                  compiled.code)),
                         !.mesh = IF buffer # <<>> THEN buffer ELSE @,
                         !.ini = IF settings.povExec THEN @ + 1 ELSE @],
              "done", firstLayer(objs), settings.povExec)

Compiling(objs, settings, fs, inc, tex, mesh, compiled) ==
    FilesWritten(objs, settings, fs, inc, tex, mesh \o compiled.mesh, compiled)

\* startExport, 147-241.
startExport(objs, settings, fs, inc, tex, mesh) ==
    Compiling(objs, settings, fs, inc, tex, mesh,
              CompileEach(Self(objs, inc, tex), Calls(firstLayer(objs), AllTrue)))

\* 133-145: the statistics, the old mesh file cleared, the export started.
Counted(objs, settings, fs, inc, tex, mesh, statistics) ==
    IF statistics.raised THEN Left(objs, inc, tex, mesh, fs, "raised", <<>>, FALSE)
    ELSE startExport(IF settings.repRot THEN repairRotation(objs) ELSE objs,
                     settings, [fs EXCEPT !.mesh = <<>>], inc, tex, mesh)

\* 108-128: the pov file emptied, the two include files read.
Opened(objs, settings, fs, inc, tex, mesh) ==
    Counted(objs, settings, [fs EXCEPT !.pov = <<>>], inc, tex, mesh,
            getStatistics(objs, inc))

\* Line 73 with the assignment left out.
KeptMeshFileContent(content) == content

\* Line 73: self.meshFileContent = "".
NewMeshFileContent(content) == <<>>

\* initExport with the old mesh file cleared at its start.
initExportClearingFirst(objs, settings, fs, inc, tex, mesh) ==
    IF settings.povPath = "" \/ settings.povPath \in fs.locked
    THEN Left(objs, inc, tex, mesh, [fs EXCEPT !.mesh = <<>>], "canceled", <<>>, FALSE)
    ELSE Opened(objs, settings, fs, delComments(fs.inc), Str(fs.tex), mesh)

\* initExport, 47-145: no pov path (129-131), a pov file that cannot be
\* opened (110-112), or the export.
initExport(objs, settings, fs, inc, tex, mesh) ==
    IF settings.povPath = ""
    THEN Left(objs, inc, tex, mesh, fs, "canceled", <<>>, FALSE)
    ELSE IF settings.povPath \in fs.locked
    THEN Left(objs, inc, tex, mesh, fs, "unopened", <<>>, FALSE)
    ELSE Opened(objs, settings, fs, delComments(fs.inc), Str(fs.tex), mesh)

-----------------------------------------------------------------------------
(* Specification of the export: initExport called again and again on one    *)
(* document, with one Settings object and the same include files.           *)

MaxRuns == 2

\* The objects a document of the specification is grown from.
ExportRoots ==
    {Nm("Box"), <<"Box", "001">>, <<"Feature", "001">>, Nm("Cut"), Nm("Array"),
     <<"Array", "002">>, Nm("Body"), Nm("Part"), <<"Part", "001">>, <<"Clone", "001">>,
     <<"Clone", "003">>, <<"Cut", "001">>, Nm("MultiCommon")}

\* The user's include file as it is on disk, comments and all.
IncFiles ==
    { <<>>,
      Declare("Box", <<"_", "material">>) \o <<"\n", "/", "/", "d", "\n">>
          \o Declare("Feature", <<"_", "photons">>),
      <<"/", "*", "camera", "*", "/", "\n">> \o Declare("Box", <<"_", "photons">>),
      <<"camera", "\n", "/", "*", "d", "*", "/">>,
      <<"/", "*", "d">> }

TexIncFiles ==
    { <<>>,
      Declare("Box", <<"_", "material", "_", "hollow">>) \o <<"\n">>
          \o Declare("Feature", <<"_", "pigment">>),
      <<"/", "*">> \o Declare("Box", <<"_", "material">>) \o <<"*", "/", "\n">> }

Settings ==
    { [repRot |-> TRUE, povPath |-> "scene.pov", expLight |-> TRUE, povExec |-> TRUE],
      [repRot |-> FALSE, povPath |-> "scene.pov", expLight |-> FALSE, povExec |-> TRUE],
      [repRot |-> TRUE, povPath |-> "scene.pov", expLight |-> FALSE, povExec |-> FALSE],
      [repRot |-> FALSE, povPath |-> "", expLight |-> TRUE, povExec |-> TRUE],
      [repRot |-> TRUE, povPath |-> "locked.pov", expLight |-> TRUE, povExec |-> TRUE] }

\* The mesh file an earlier export of another document left at meshPath.
OldMeshFile ==
    <<[k |-> "mesh2", n |-> <<"Old", "">>, name |-> <<"Old", "_", "mesh">>,
       vertices |-> 3, triangles |-> 1]>>

ExportInit ==
    /\ \E roots \in SUBSET ExportRoots :
          /\ Cardinality(roots) \in 1 .. 2
          /\ doc = Document(OutListRecursive(Arena, roots))
    /\ renderSettings \in Settings
    /\ \E inc \in IncFiles, tex \in TexIncFiles :
          files = [pov |-> <<>>, mesh |-> OldMeshFile, inc |-> inc, tex |-> tex,
                   ini |-> 0, locked |-> {"locked.pov"}, lockedLater |-> {}]
    /\ runs = <<>>
    /\ incContent = Str(<<>>)
    /\ texIncContent = Str(<<>>)
    /\ meshFileContent = <<>>
    /\ call = <<>>
    /\ returned = <<>>
    /\ compilePc = "idle"
    /\ TextIdle /\ SketchIdle /\ LoopIdle /\ StepIdle

Exported(left) ==
    /\ doc' = left.doc
    /\ incContent' = left.incContent
    /\ texIncContent' = left.texIncContent
    /\ meshFileContent' = left.meshFileContent
    /\ files' = left.files
    /\ runs' = Append(runs, [outcome |-> left.outcome, pov |-> left.files.pov,
                             meshFile |-> left.files.mesh,
                             meshFileContent |-> left.meshFileContent,
                             firstLayer |-> left.firstLayer,
                             rendered |-> left.rendered])

\* exporter.initExport(renderSettings)
InitExportCall ==
    /\ Len(runs) < MaxRuns
    /\ Exported(initExport(doc, renderSettings, files, incContent, texIncContent,
                           NewMeshFileContent(meshFileContent)))
    /\ UNCHANGED <<renderSettings, compileVars, textVars, sketchVars, loopVars,
                   stepVars>>

ExportNext == InitExportCall

SpecExport == ExportInit /\ [][ExportNext]_vars

-----------------------------------------------------------------------------
(* Specification of the export with files that another program locks while  *)
(* the objects are compiled: initExport can still open them, startExport    *)
(* cannot.                                                                  *)

WriteInit ==
    /\ \E root \in ExportRoots : doc = Document(OutListRecursive(Arena, {root}))
    /\ renderSettings \in Settings
    /\ \E lockedLater \in SUBSET {"scene.pov", MeshPath} :
          files = [pov |-> <<>>, mesh |-> OldMeshFile, inc |-> <<>>, tex |-> <<>>,
                   ini |-> 0, locked |-> {"locked.pov"}, lockedLater |-> lockedLater]
    /\ runs = <<>>
    /\ incContent = Str(<<>>)
    /\ texIncContent = Str(<<>>)
    /\ meshFileContent = <<>>
    /\ call = <<>>
    /\ returned = <<>>
    /\ compilePc = "idle"
    /\ TextIdle /\ SketchIdle /\ LoopIdle /\ StepIdle

WriteNext == InitExportCall

SpecWrite == WriteInit /\ [][WriteNext]_vars

-----------------------------------------------------------------------------
(* Claims about sketchToBezier *)

\* The end points of the bounded curves of a geometry list.
EndsOf(lines) ==
    {lines[i].StartPoint : i \in {j \in 1 .. Len(lines) : HasEndPoints(lines[j])}}
    \cup {lines[i].EndPoint : i \in {j \in 1 .. Len(lines) : HasEndPoints(lines[j])}}

\* How many curve ends of the list lie on point p.
Degree(lines, p) ==
    Cardinality({i \in 1 .. Len(lines) :
                    HasEndPoints(lines[i]) /\ isSamePoint(lines[i].StartPoint, p)})
    + Cardinality({i \in 1 .. Len(lines) :
                    HasEndPoints(lines[i]) /\ isSamePoint(lines[i].EndPoint, p)})

\* A closed profile of line segments: no construction geometry, and every
\* point is the end of an even number of segments.
ClosedLineProfile(lines) ==
    /\ Len(lines) >= 1
    /\ \A i \in 1 .. Len(lines) :
          lines[i].type = "LineSegment" /\ ~lines[i].Construction
    /\ \A p \in EndsOf(lines) : Degree(lines, p) % 2 = 0

CountOf(points, curve) ==
    Cardinality({i \in 1 .. Len(points) : points[i].curve = curve})

TypeCount(lines, type) ==
    Cardinality({i \in 1 .. Len(lines) : lines[i].type = type})

\* C6: the count sketchToBezier returns is the number of control points it
\* wrote: 4 per line segment, 16 per circle, 4 per arc sub-segment; a closed
\* profile of N line segments gives 4N and a single circle gives 16.
C6_PointCount ==
    sketchPc = "done" =>
        /\ ~bezier.unsupported =>
              /\ bezier.numOfPoints = Len(bezier.povSpline)
              /\ CountOf(bezier.povSpline, "line")
                    = 4 * TypeCount(KeptGeometry(geometry), "LineSegment")
              /\ CountOf(bezier.povSpline, "circle")
                    = 16 * TypeCount(KeptGeometry(geometry), "Circle")
              /\ CountOf(bezier.povSpline, "arc")
                    = 4 * Cardinality({i \in 1 .. Len(bezier.povSpline) :
                                          /\ bezier.povSpline[i].curve = "arc"
                                          /\ bezier.povSpline[i].role = "start"})
        /\ ClosedLineProfile(geometry) =>
              ~bezier.unsupported /\ bezier.numOfPoints = 4 * Len(geometry)
        /\ (Len(geometry) = 1 /\ geometry[1].type = "Circle") =>
              ~bezier.unsupported /\ bezier.numOfPoints = 16

\* A closed triangle of lines next to a circle, compiled.
C6_Witness ==
    /\ sketchPc = "done"
    /\ ~bezier.unsupported
    /\ TypeCount(geometry, "LineSegment") = 3
    /\ TypeCount(geometry, "Circle") = 1
    /\ ClosedLineProfile(SelectSeq(geometry, LAMBDA g : g.type = "LineSegment"))
    /\ bezier.numOfPoints = 28

\* The list rotated left by k places.
Rotated(lines, k) ==
    [i \in 1 .. Len(lines) |-> lines[((i + k - 1) % Len(lines)) + 1]]

\* A segment without its direction.
Undirected(g) == [type |-> g.type, ends |-> {g.StartPoint, g.EndPoint}]

UndirectedSeq(lines) == [i \in 1 .. Len(lines) |-> Undirected(lines[i])]

\* Two results hold the same ordered sequence up to the starting point.
SameUpToStart(r1, r2) ==
    /\ r1.unsupported = r2.unsupported
    /\ Len(r1.sortedLines) = Len(r2.sortedLines)
    /\ \/ r1.sortedLines = <<>>
       \/ \E k \in 0 .. (Len(r1.sortedLines) - 1) :
             UndirectedSeq(Rotated(r2.sortedLines, k)) = UndirectedSeq(r1.sortedLines)

RECURSIVE ReachFrom(_, _)
ReachFrom(lines, seen) ==
    LET more == {q \in EndsOf(lines) :
                    \E i \in 1 .. Len(lines) :
                        /\ HasEndPoints(lines[i])
                        /\ {lines[i].StartPoint, lines[i].EndPoint} \cap seen # {}
                        /\ q \in {lines[i].StartPoint, lines[i].EndPoint}}
    IN  IF more \subseteq seen THEN seen ELSE ReachFrom(lines, seen \cup more)

\* One closed loop: the bounded segments form a single cycle in which every
\* point joins exactly two segments; circles may sit anywhere in the list.
OneClosedLoop(lines) ==
    /\ \A i \in 1 .. Len(lines) :
          ~lines[i].Construction /\ (HasEndPoints(lines[i]) \/ lines[i].type = "Circle")
    /\ EndsOf(lines) # {}
    /\ \A i \in 1 .. Len(lines) :
          HasEndPoints(lines[i]) => lines[i].StartPoint # lines[i].EndPoint
    /\ \A p \in EndsOf(lines) : Degree(lines, p) = 2
    /\ \A p \in EndsOf(lines) : ReachFrom(lines, {p}) = EndsOf(lines)

\* C7 as stated: for a profile forming one closed loop, every cyclic rotation
\* of the input list gives the same ordered segment sequence up to its
\* starting point, whatever the stored directions and wherever a circle sits.
C7_AsStated ==
    (sketchPc = "done" /\ OneClosedLoop(geometry)) =>
        \A k \in 0 .. (Len(geometry) - 1) :
            SameUpToStart(bezier, sketchToBezier(Rotated(geometry, k)))

-----------------------------------------------------------------------------
(* Claims about delComments *)

HasOcc(s, pat) == Find(s, pat, 0) # -1

\* Each "/*" of the text has a later "*/".
EveryBlockClosed(c) ==
    \A i \in 0 .. (Len(c) - 2) :
        SubSeq(c, i + 1, i + 2) = BlockOpen => Find(c, BlockClose, i + 2) # -1

\* Some "//" of the text has no later newline.
OpenLineComment(c) ==
    \E i \in 0 .. (Len(c) - 2) :
        SubSeq(c, i + 1, i + 2) = LineOpen /\ Find(c, Newline, i + 2) = -1

EndsWithNewline(c) == Len(c) > 0 /\ c[Len(c)] = "\n"

NoCommentLeft(r) == ~r.isNone /\ ~HasOcc(r.text, BlockOpen) /\ ~HasOcc(r.text, LineOpen)

\* C10 as stated: whenever each "/*" has a later "*/", delComments returns the
\* text with all block and line comments removed (also when the text ends with
\* a "//" comment that has no trailing newline).
C10_AsStated ==
    (textPc = "done" /\ EveryBlockClosed(code)) => NoCommentLeft(stripped)

\* C10 amended: delComments fails only on an unterminated block comment or on
\* a "//" comment with no newline after it.  A text in which each "/*" has a
\* later "*/" and which ends with a newline comes back with no "/*" and no
\* "//" left; a text without block comments in which some "//" has no later
\* newline makes it return None.
C10_FailsOnlyOnUnterminated ==
    textPc = "done" =>
        /\ (EveryBlockClosed(code) /\ EndsWithNewline(code)) => NoCommentLeft(stripped)
        /\ (~HasOcc(code, BlockOpen) /\ OpenLineComment(code)) => stripped.isNone
        /\ (~HasOcc(code, BlockOpen) /\ ~OpenLineComment(code)) => NoCommentLeft(stripped)

\* A text with a closed block comment and a terminated line comment, stripped.
C10_Witness ==
    /\ textPc = "done"
    /\ HasOcc(code, BlockOpen) /\ HasOcc(code, LineOpen)
    /\ EveryBlockClosed(code) /\ EndsWithNewline(code)
    /\ ~stripped.isNone
    /\ Len(stripped.text) < Len(code)

-----------------------------------------------------------------------------
(* Claims about createPovCode *)

Keywords == {"box", "sphere", "cone", "cylinder", "torus", "polygon", "prism",
             "union", "difference", "merge", "intersection"}

\* The statement has a reference "object { <label>_mesh".
HasMeshReference(povCode) ==
    \E j \in 1 .. Len(povCode) :
        /\ povCode[j].k = "open"
        /\ povCode[j].kw = "object"
        /\ Len(povCode[j].params) = 3
        /\ povCode[j].params[3] = "mesh"

HasKeyword(povCode) ==
    \E j \in 1 .. Len(povCode) : povCode[j].k = "open" /\ povCode[j].kw \in Keywords

\* The object is outside the supported analytic set: an unknown TypeId, an
\* unsupported extrusion, pad, pocket or body, or an array of unknown ArrayType.
OutsideSupported(objs, fcObj) ==
    LET o == objs[fcObj]
    IN  \/ /\ o.TypeId = "Part::FeaturePython"
           /\ startswith(fcObj, "Array")
           /\ o.ArrayType \notin {"polar", "ortho"}
        \/ /\ o.TypeId = "Part::Extrusion"
           /\ ~isExtrudeSupported(objs, fcObj) \/ SplineOf(objs, o.Base).unsupported
        \/ /\ o.TypeId \in {"PartDesign::Pad", "PartDesign::Pocket"}
           /\ o.Profile # <<>>
           /\ ~isPadPocketSupported(objs, fcObj) \/ SplineOf(objs, o.Profile[1]).unsupported
        \/ o.TypeId = "PartDesign::Body" /\ ~isBodySupported(objs, fcObj)
        \/ /\ ~IsPrimitive(o.TypeId)
           /\ BooleanKeyword(o.TypeId) = ""
           /\ o.TypeId \notin {"Part::FeaturePython", "Part::Extrusion", "Image::ImagePlane",
                               "App::Part", "PartDesign::Body", "PartDesign::Pad",
                               "PartDesign::Pocket"}
        \/ /\ o.TypeId = "Part::FeaturePython"
           /\ ~startswith(fcObj, "Array") /\ ~startswith(fcObj, "Clone")
           /\ ~IsLight(objs, fcObj)

\* C1 as the specification states it: whatever the six flags, the statement
\* createPovCode returns is a mesh reference without any primitive or CSG
\* keyword exactly if the object is outside the supported analytic set.
C1_AsStated ==
    compilePc = "returned" =>
        ((HasMeshReference(returned) /\ ~HasKeyword(returned))
            <=> OutsideSupported(doc, call.fcObj))

\* Opening braces minus closing braces in the first j tokens.  The blocks
\* inside one token (pigment, finish, material, photons, transform) are closed
\* where they are opened.
RECURSIVE Depth(_, _)
Depth(povCode, j) ==
    IF j = 0 THEN 0
    ELSE Depth(povCode, j - 1)
         + (IF povCode[j].k = "open" THEN 1 ELSE IF povCode[j].k = "close" THEN -1 ELSE 0)

Balanced(povCode) ==
    /\ Depth(povCode, Len(povCode)) = 0
    /\ \A j \in 1 .. Len(povCode) : Depth(povCode, j) >= 0

\* C2 as the specification states it: the statement returned for any object
\* with all six flags true has as many closing as opening braces and no prefix
\* of it closes more blocks than it has opened.
C2_AsStated ==
    (compilePc = "returned" /\ call.f = AllTrue) => Balanced(returned)

\* C8 as the specification states it: no call of createPovCode raises.
C8_AsStated == compilePc # "raised"

\* The keyword the specification gives each boolean combinator.
CombinatorKeyword(typeId) ==
    CASE typeId = "Part::Cut" -> "difference"
      [] typeId \in {"Part::Fuse", "Part::MultiFuse", "Part::Compound"} -> "merge"
      [] typeId \in {"Part::Common", "Part::MultiCommon"} -> "intersection"

Combinators == {"Part::Cut", "Part::Fuse", "Part::MultiFuse", "Part::Compound",
                "Part::Common", "Part::MultiCommon"}

RECURSIVE Concat(_)
Concat(seqs) == IF seqs = <<>> THEN <<>> ELSE Head(seqs) \o Concat(Tail(seqs))

\* The tokens written for a child and for everything below it.
Written(objs, povCode, child) ==
    SelectSeq(povCode, LAMBDA t : t.n \in OutListRecursive(objs, {child}))

\* One statement, closed by the closing brace of the child itself.
OneClosedStatement(seg, child) ==
    /\ seg # <<>>
    /\ Last(seg) = Close(child)
    /\ Balanced(seg)
    /\ \A j \in 1 .. Len(seg) - 1 :
          Depth(seg, j) = 0 => \A m \in 1 .. j : seg[m].k # "open"

\* The statement has the translate and the rotate of the child's Placement.
CarriesPlacement(objs, seg, child) ==
    LET p == objs[child].Placement
    IN  /\ p.Base # Origin =>
              \E j \in 1 .. Len(seg) :
                  seg[j].k = "translate" /\ seg[j].n = child /\ seg[j].v = p.Base
        /\ p.Rotation.Angle # 0 =>
              \E j \in 1 .. Len(seg) : seg[j].k = "rotate" /\ seg[j].n = child

\* The code of a combinator is one block of the right keyword that holds one
\* closed statement with its own placement per child, in the order of the
\* children.
CombinatorBlock(objs, fcObj, povCode) ==
    LET o        == objs[fcObj]
        own      == SelectSeq(povCode, LAMBDA t : t.n = fcObj /\ t.k = "open")
        inner    == SelectSeq(povCode, LAMBDA t : t.n # fcObj)
    IN  /\ own = <<Open(CombinatorKeyword(o.TypeId), fcObj, <<>>)>>
        /\ inner = Concat([j \in 1 .. Len(o.OutList) |-> Written(objs, inner, o.OutList[j])])
        /\ \A j \in 1 .. Len(o.OutList) :
              /\ OneClosedStatement(Written(objs, inner, o.OutList[j]), o.OutList[j])
              /\ CarriesPlacement(objs, Written(objs, inner, o.OutList[j]), o.OutList[j])

\* C4 as the specification states it: a Cut, Fuse, MultiFuse, Compound, Common
\* or MultiCommon with n children gives one block with n closed child
\* statements, each with its own placement, whatever flags it was called with.
C4_AsStated ==
    (compilePc = "returned" /\ doc[call.fcObj].TypeId \in Combinators)
        => CombinatorBlock(doc, call.fcObj, returned)

PrimitiveChildren(objs, fcObj) ==
    \A j \in 1 .. Len(objs[fcObj].OutList) : IsPrimitive(objs[objs[fcObj].OutList[j]].TypeId)

\* C4, amended: the same for a combinator whose children are all analytic
\* primitives (box, sphere, ellipsoid, cone, cylinder, torus, plane).
C4_PrimitiveChildren ==
    (/\ compilePc = "returned"
     /\ doc[call.fcObj].TypeId \in Combinators
     /\ PrimitiveChildren(doc, call.fcObj))
        => CombinatorBlock(doc, call.fcObj, returned)

\* A Fuse of a translated, rotated box and a rotated cone, compiled with
\* expPlacement and expClose false.
C4_Witness ==
    /\ compilePc = "returned"
    /\ doc[call.fcObj].TypeId = "Part::Fuse"
    /\ Len(doc[call.fcObj].OutList) = 2
    /\ PrimitiveChildren(doc, call.fcObj)
    /\ doc[doc[call.fcObj].OutList[1]].Placement.Base # Origin
    /\ doc[doc[call.fcObj].OutList[2]].Placement.Rotation.Angle # 0
    /\ ~call.f.expPlacement /\ ~call.f.expClose

-----------------------------------------------------------------------------
(* Claims about the polar array *)

PolarDone == compilePc = "returned" /\ reading > Len(returned)

CountTokens(povCode, Test(_)) == Len(SelectSeq(povCode, Test))

\* What the loop has to instantiate in round i.
PolarInstance(objs, fcObj, i) ==
    [object |-> DeclareName(objs, objs[fcObj].Base),
     i |-> i,
     axis |-> PolarAxis(objs[fcObj]).v,
     angle |-> [num |-> i * objs[fcObj].Angle, den |-> objs[fcObj].NumberPolar]]

\* The loop runs: POV-Ray comes to the end of the returned code, and has then
\* instantiated the declared base n times, round i = 0 .. n-1 by i*a/n about
\* the declared axis; the base is compiled once, into the one declaration the
\* instances name.
C5_LoopRuns ==
    /\ [](PolarDone =>
            /\ Len(instances) = doc[Nm("Array")].NumberPolar
            /\ \A j \in 1 .. Len(instances) :
                  instances[j] = PolarInstance(doc, Nm("Array"), j - 1)
            /\ CountTokens(returned, LAMBDA t : t.k = "declareObject") = 1
            /\ CountTokens(returned, LAMBDA t : t.k = "open" /\ t.n = Nm("Box")) = 1
            /\ \E j \in 1 .. Len(returned) - 1 :
                  /\ returned[j].k = "declareObject"
                  /\ returned[j].name = DeclareName(doc, Nm("Box"))
                  /\ returned[j + 1].n = Nm("Box"))
    /\ [](compilePc = "returned" => <>PolarDone)

\* The declared axis num/den points the way of the array axis.
AboutArrayAxis(instance, axis) == instance.axis.num = axis /\ instance.axis.den > 0

\* C5: for a polar array with NumberPolar = n and Angle = a the loop starts at
\* i = 0, has bound n, adds one to i per round, instantiates the declared base
\* once per round by i*a/n about the array axis, so runs rounds i = 0 .. n-1
\* and ends; the base is compiled once into the named declaration.
C5_AsStated ==
    /\ C5_LoopRuns
    /\ [](PolarDone =>
            \A j \in 1 .. Len(instances) :
                AboutArrayAxis(instances[j], doc[Nm("Array")].Axis))

-----------------------------------------------------------------------------
(* Claims about the export *)

\* What a run left in the pov file and in self.meshFileContent.
Output(run) == <<run.pov, run.meshFileContent>>

\* The declarations of one object's mesh in a mesh buffer.
DeclarationsOf(buffer, name) ==
    Len(SelectSeq(buffer, LAMBDA t : t.name = name))

C9_AsStated ==
    \A j \in 1 .. Len(runs) :
        (/\ renderSettings.povPath \notin {""} \cup files.locked
         /\ DelBig(files.inc).isNone)
            => runs[j].outcome = "done"


Aborted(run) == run.outcome \in {"canceled", "unopened"}

\* C11: an initExport that has no pov path or cannot open the pov file ends
\* with every file as it was, without startExport having taken a first layer,
\* with nothing in meshFileContent, and without POV-Ray started.
C11_AbortsBeforeCompiling ==
    [][(Len(runs') > Len(runs) /\ Aborted(Last(runs')))
          => /\ files' = files
             /\ Last(runs').firstLayer = <<>>
             /\ ~Last(runs').rendered
             /\ meshFileContent' = <<>>]_vars

\* A run that could not open the pov file, on a document with visible
\* objects and with an old mesh file on disk.
C11_Witness ==
    /\ Len(runs) = 1
    /\ runs[1].outcome = "unopened"
    /\ files.mesh = OldMeshFile
    /\ firstLayer(doc) # <<>>


-----------------------------------------------------------------------------
(* Further claims about createPovCode *)

EmptyTessellation(o) == o.Topology.vertices = 0 \/ o.Topology.triangles = 0

\* C12: a mesh-fallback object whose tessellation has no vertices or no
\* triangles, compiled with expMeshDef, appends nothing to meshFileContent
\* and returns nothing but its label comment: no object reference, no
\* material, no placement clause, no brace.
C12_AsStated ==
    (/\ compilePc = "returned"
     /\ call.f.expMeshDef
     /\ OutsideSupported(doc, call.fcObj)
     /\ EmptyTessellation(doc[call.fcObj]))
        => /\ meshFileContent = <<>>
           /\ \A j \in 1 .. Len(returned) : returned[j].k = "label"


\* C16: for an analytic primitive compiled with expPigment, the statement
\* refers to <label>_material whenever the user's include file declares it,
\* whatever the texture include file declares for that label.
C16_AsStated ==
    (/\ compilePc = "returned"
     /\ call.f.expPigment
     /\ IsPrimitive(doc[call.fcObj].TypeId)
     /\ Declares(incContent, doc[call.fcObj].Label, <<"_", "material">>))
        => \E j \in 1 .. Len(returned) :
              /\ returned[j].k = "material"
              /\ returned[j].n = call.fcObj
              /\ returned[j].kind = "material"
              /\ returned[j].name = <<doc[call.fcObj].Label, "_", "material">>

\* The flags createPovCode hands to createMesh: the pad and pocket branch
\* sets expPigment (700-702), the others hand their own on.
MeshFlags(objs, fcObj, f) ==
    IF objs[fcObj].TypeId \in {"PartDesign::Pad", "PartDesign::Pocket"}
    THEN [f EXCEPT !.expPigment = TRUE]
    ELSE f

\* C18: for every object that is compiled as a mesh (array of unknown
\* ArrayType, unsupported extrusion, pad, pocket or body, unknown TypeId) the
\* returned code is the label comment and what createMesh returned, with
\* nothing after it.
C18_AsStated ==
    (compilePc = "returned" /\ OutsideSupported(doc, call.fcObj))
        => returned = LabelCode(doc, call.fcObj, call.f)
                      \o createMesh(Self(doc, incContent, texIncContent), call.fcObj,
                                    MeshFlags(doc, call.fcObj, call.f)).code

SupportedExtrusion(objs, fcObj) ==
    objs[fcObj].TypeId = "Part::Extrusion" /\ ~OutsideSupported(objs, fcObj)

\* The rotate and translate clauses written for an object, in order.
PlacementOf(povCode, name) ==
    SelectSeq(povCode, LAMBDA t : t.k \in {"rotate", "translate"} /\ t.n = name)

\* C19 as the specification states it: the code of a supported extrusion has
\* no rotation and no translation of the extrusion itself, whatever
\* expPlacement is.
C19_AsStated ==
    (compilePc = "returned" /\ SupportedExtrusion(doc, call.fcObj))
        => PlacementOf(returned, call.fcObj) = <<>>

\* C19, amended: the code of a supported extrusion has the rotation and the
\* translation of the profile sketch whatever expPlacement is, and those of
\* the extrusion itself exactly if expPlacement is set.
C19_ProfileAlwaysOwnIfPlaced ==
    (compilePc = "returned" /\ SupportedExtrusion(doc, call.fcObj))
        => /\ PlacementOf(returned, doc[call.fcObj].Base)
                 = getRotation(doc, doc[call.fcObj].Base).v
                   \o getTranslation(doc, doc[call.fcObj].Base)
           /\ PlacementOf(returned, call.fcObj)
                 = IF call.f.expPlacement
                   THEN getRotation(doc, call.fcObj).v \o getTranslation(doc, call.fcObj)
                   ELSE <<>>

\* The extrusion that is translated by (0, 0, 7), compiled with expPlacement:
\* its code has the rotation of its sketch and its own translation.
C19_Witness ==
    /\ compilePc = "returned"
    /\ call.fcObj = Nm("Extrude")
    /\ call.f.expPlacement
    /\ PlacementOf(returned, Nm("Sketch")) # <<>>
    /\ PlacementOf(returned, Nm("Extrude"))
          = <<[k |-> "translate", n |-> Nm("Extrude"), v |-> Vec(0, 0, 7)]>>

\* The start and end height of the prism written for an object.
PrismOf(povCode, name) ==
    SelectSeq(povCode, LAMBDA t : t.k = "open" /\ t.kw = "prism" /\ t.n = name)[1].params

\* The overlap of a pocket, 0.0001 mm (708).
Overlap == 1

\* C20: for a pad and a pocket with the same Length L, Midplane and Reversed,
\* the pocket's end height is minus the pad's; with Midplane both prisms span
\* -L/2 .. L/2; without it the pad starts at 0 and the pocket starts the
\* overlap away from 0, on the side opposite to its end.
C20_PocketMirrorsPad ==
    (compilePc = "returned" /\ call.fcObj = Nm("Pocket")) =>
        LET pad    == PrismOf(returned, Nm("Pad"))
            pocket == PrismOf(returned, Nm("Pocket"))
            half   == (doc[Nm("Pad")].Length * Mm) \div 2
        IN  /\ pocket[2] = -pad[2]
            /\ doc[Nm("Pad")].Midplane =>
                  /\ {pad[1], pad[2]} = {-half, half}
                  /\ {pocket[1], pocket[2]} = {-half, half}
            /\ ~doc[Nm("Pad")].Midplane =>
                  /\ pad[1] = 0
                  /\ pocket[1] \in {-Overlap, Overlap}
                  /\ pocket[1] > 0 <=> pocket[2] < 0

\* A reversed pocket of 3 mm without Midplane, cut into a reversed pad of
\* 3 mm: the pad ends at 3 mm, the pocket at -3 mm and starts at +0.0001 mm.
C20_Witness ==
    /\ compilePc = "returned"
    /\ call.fcObj = Nm("Pocket")
    /\ doc[Nm("Pocket")].Length = 3
    /\ doc[Nm("Pocket")].Reversed
    /\ ~doc[Nm("Pocket")].Midplane
    /\ PrismOf(returned, Nm("Pad")) [2] = 3 * Mm
    /\ PrismOf(returned, Nm("Pocket"))[1] = Overlap
    /\ PrismOf(returned, Nm("Pocket"))[2] = -(3 * Mm)

-----------------------------------------------------------------------------
(* Further claims about the export *)

\* The objects that link to the object, directly or through others.
RECURSIVE Ancestors(_, _)
Ancestors(objs, found) ==
    LET more == UNION {InList(objs, n) : n \in found}
    IN  IF more \subseteq found THEN found ELSE Ancestors(objs, found \cup more)

Containers == {"PartDesign::Body", "App::Part"}

\* The root set of the specification.
RootSet(objs) ==
    {n \in DOMAIN objs :
        /\ objs[n].ViewObject.Visibility
        /\ objs[n].TypeId # "App::DocumentObjectGroup"
        /\ \A a \in Ancestors(objs, InList(objs, n)) : objs[a].TypeId \notin Containers}

\* C13: the first layer startExport compiles is exactly the visible objects
\* that are no group and have no Body and no Part among their ancestors, at
\* any depth.
C13_AsStated ==
    \A j \in 1 .. Len(runs) :
        runs[j].outcome = "done" =>
            {runs[j].firstLayer[m] : m \in 1 .. Len(runs[j].firstLayer)} = RootSet(doc)


MeshInclude(t) == t.k = "include" /\ t.file = "mesh"

\* C14: the pov file of a finished export includes the mesh file exactly if
\* meshFileContent is not empty once every object of the first layer is
\* compiled, the mesh file then holds that content (and is empty otherwise),
\* and the include stands before every statement of an object.
C14_MeshIncludeIffBuffer ==
    \A j \in 1 .. Len(runs) :
        runs[j].outcome = "done" =>
            /\ (\E m \in 1 .. Len(runs[j].pov) : MeshInclude(runs[j].pov[m]))
                  <=> runs[j].meshFileContent # <<>>
            /\ runs[j].meshFile = runs[j].meshFileContent
            /\ \A m, p \in 1 .. Len(runs[j].pov) :
                  (MeshInclude(runs[j].pov[m]) /\ runs[j].pov[p].n # NoObject) => m < p

\* A finished export of a box and a mesh object: the include is there, and
\* statements of both objects follow.
C14_Witness ==
    /\ Len(runs) = 1
    /\ runs[1].outcome = "done"
    /\ runs[1].meshFileContent # <<>>
    /\ \E m \in 1 .. Len(runs[1].pov) : MeshInclude(runs[1].pov[m])
    /\ \E p \in 1 .. Len(runs[1].pov) : runs[1].pov[p].n = <<"Box", "001">>
    /\ \E p \in 1 .. Len(runs[1].pov) : runs[1].pov[p].n = <<"Feature", "001">>


\* C15: within one export meshFileContent gets at most one declaration per
\* object, however often the object is compiled.
C15_AsStated ==
    \A j \in 1 .. Len(runs) :
        \A m \in 1 .. Len(runs[j].meshFileContent) :
            DeclarationsOf(runs[j].meshFileContent, runs[j].meshFileContent[m].name) = 1


\* The text declares the name outside of its comments.
DeclaredOutsideComments(text, name) ==
    Find(delComments(text).text, <<"#declare ">> \o name, 0) # -1

\* C17: a material a finished export refers to by name is declared outside
\* the comments of the user's include file or of the texture include file.
C17_AsStated ==
    \A j \in 1 .. Len(runs) :
        runs[j].outcome = "done" =>
            \A m \in 1 .. Len(runs[j].pov) :
                runs[j].pov[m].k = "material" =>
                    \/ DeclaredOutsideComments(files.inc, runs[j].pov[m].name)
                    \/ DeclaredOutsideComments(files.tex, runs[j].pov[m].name)

-----------------------------------------------------------------------------
(* Claims about createMesh *)

\* A placement clause as the elementary motions POV-Ray performs for it, in
\* order: rotate <x, y, z> turns about x, then y, then z; `translate v * (-1)`
\* moves by -v.
Motions(t) ==
    LET turn(axis, a) == IF a = 0 THEN <<>> ELSE <<[axis |-> axis, by |-> a]>>
        move(v) == <<[axis |-> "move", by |-> v]>>
    IN  CASE t.k = "rotate" -> turn("x", t.v.x) \o turn("y", t.v.y) \o turn("z", t.v.z)
          [] t.k = "rotateInv" -> turn(t.axis, t.v)
          [] t.k = "translate" -> move(t.v)
          [] t.k = "translateBack" -> move(Vec(-t.v.x, -t.v.y, -t.v.z))
          [] OTHER -> <<>>

\* One motion undoes the other: the same axis and the opposite amount.
Undoes(m1, m2) ==
    /\ m1.axis = m2.axis
    /\ IF m1.axis = "move"
       THEN m1.by.x + m2.by.x = 0 /\ m1.by.y + m2.by.y = 0 /\ m1.by.z + m2.by.z = 0
       ELSE m1.by + m2.by = 0

\* The motions of a code that are left when every motion followed directly
\* by its opposite has been dropped with it.
RECURSIVE Reduce(_, _)
Reduce(done, motions) ==
    IF motions = <<>> THEN done
    ELSE IF done # <<>> /\ Undoes(done[Len(done)], Head(motions))
    THEN Reduce(SubSeq(done, 1, Len(done) - 1), Tail(motions))
    ELSE Reduce(Append(done, Head(motions)), Tail(motions))

MotionsOf(povCode) == Concat([j \in 1 .. Len(povCode) |-> Motions(povCode[j])])

PlacementKinds == {"rotate", "rotateInv", "translate", "translateBack"}

PlacementClauses(povCode) == SelectSeq(povCode, LAMBDA t : t.k \in PlacementKinds)

\* The placement of the object as the trailing clauses of createPovCode
\* write it (863-870).
PlacedAs(objs, fcObj) == getRotation(objs, fcObj).v \o getTranslation(objs, fcObj)

\* The clauses are a translation back, if any, and then turns back about z,
\* y and x in that order, one at most about each.
BackInOrder(clauses) ==
    LET rank(t) == CASE t.k = "translateBack" -> 0
                     [] t.k = "rotateInv" /\ t.axis = "z" -> 1
                     [] t.k = "rotateInv" /\ t.axis = "y" -> 2
                     [] t.k = "rotateInv" /\ t.axis = "x" -> 3
                     [] OTHER -> 9
    IN  /\ \A j \in 1 .. Len(clauses) : rank(clauses[j]) < 9
        /\ \A j \in 1 .. Len(clauses) - 1 : rank(clauses[j]) < rank(clauses[j + 1])

\* C21: createMesh called with expPlacement false writes the translation back
\* first and then the turns back about z, y and x, so that the placement of the
\* object followed by the written clauses moves nothing; called with
\* expPlacement true it writes no translate and no rotate clause.
C21_MeshUndoesPlacement ==
    (compilePc = "returned" /\ returned # <<>>) =>
        IF call.f.expPlacement
        THEN PlacementClauses(returned) = <<>>
        ELSE /\ BackInOrder(PlacementClauses(returned))
             /\ Reduce(<<>>, MotionsOf(PlacedAs(doc, call.fcObj))
                                \o MotionsOf(returned)) = <<>>

C21_Witness ==
    /\ compilePc = "returned"
    /\ ~call.f.expPlacement
    /\ doc[call.fcObj].Placement.Rotation.Axis = Vec(1, 1, 0)
    /\ doc[call.fcObj].Placement.Base = Vec(1, 2, 3)
    /\ Len(PlacementClauses(returned)) = 4

-----------------------------------------------------------------------------
(* Further claims about sketchToBezier *)

\* The lines from index j on are whole loops: a circle is a loop of its own;
\* any other loop runs from its first line, each line starting where the one
\* before it ends, up to the first line that ends where the loop started.
RECURSIVE WholeLoops(_, _, _)
WholeLoops(lines, first, j) ==
    IF j > Len(lines) THEN first = j
    ELSE IF lines[j].type = "Circle" THEN first = j /\ WholeLoops(lines, j + 1, j + 1)
    ELSE /\ HasEndPoints(lines[j])
         /\ first < j => isSamePoint(lines[j].StartPoint, lines[j - 1].EndPoint)
         /\ IF isSamePoint(lines[j].EndPoint, lines[first].StartPoint)
            THEN WholeLoops(lines, j + 1, j + 1)
            ELSE WholeLoops(lines, first, j + 1)

\* C22: whenever sketchToBezier returns an ordering, each line of it starts
\* where the line before it ends and each loop ends where it started; a
\* profile with a line that nothing continues is returned as unsupported.
C22_AsStated ==
    (sketchPc = "done" /\ ~bezier.unsupported) => WholeLoops(bezier.sortedLines, 1, 1)

\* The profile without its points and its construction geometry.
LoopAlone(facadeList) == SelectSeq(facadeList, LAMBDA g : ~IsExtra(g))

\* C23: a closed loop with points and construction segments in its geometry
\* list compiles to the spline of the closed loop alone.
C23_AsStated ==
    sketchPc = "done" =>
        /\ bezier.unsupported = sketchToBezier(LoopAlone(geometry)).unsupported
        /\ bezier.povSpline = sketchToBezier(LoopAlone(geometry)).povSpline
        /\ bezier.numOfPoints = sketchToBezier(LoopAlone(geometry)).numOfPoints

\* ceil(a / b) for positive b.
Ceil(a, b) == (a + b - 1) \div b

Span(arc) == arc.LastParameter - arc.FirstParameter

\* C24: an arc of a degrees is split into ceil(a / 90) sub-segments of at most
\* 90 degrees each: an arc of 90 degrees into 1, of 180 into 2, of 270 into 3.
C24_AsStated ==
    (sketchPc = "done" /\ ~bezier.unsupported) =>
        \A j \in 1 .. Len(bezier.sortedLines) :
            LET arc == bezier.sortedLines[j]
            IN  (arc.type = "ArcOfCircle"
                    /\ TypeCount(bezier.sortedLines, "ArcOfCircle") = 1) =>
                    /\ CountOf(bezier.povSpline, "arc") = 4 * Ceil(Span(arc), 90)
                    /\ \A i \in 1 .. Len(bezier.povSpline) :
                          bezier.povSpline[i].curve = "arc" =>
                              Span(arc) <= 90 * bezier.povSpline[i].angleDen

-----------------------------------------------------------------------------
(* Claims about the control flow *)

\* The number of objects on the longest chain of links that starts at fcObj.
RECURSIVE NestingDepth(_, _)
NestingDepth(objs, fcObj) ==
    LET below == {NestingDepth(objs, objs[fcObj].OutList[j]) :
                     j \in 1 .. Len(objs[fcObj].OutList)}
    IN  1 + (IF below = {} THEN 0 ELSE CHOOSE d \in below : \A e \in below : e <= d)

DepthBounded == stack # <<>> => Len(stack) <= NestingDepth(doc, stack[1].fcObj)

\* An iteration of the inner loop takes one line out of unsortedLeft or ends
\* sketchToBezier.
InnerShrinks ==
    InnerTake => \/ Len(unsortedLeft') = Len(unsortedLeft) - 1
                 \/ stepPc' = "children"

\* C25: createPovCode returns (or raises) on every object of an acyclic
\* document, with never more calls open than the object has levels below and
\* including it; every iteration of the inner ordering loop of sketchToBezier
\* removes one unsorted line or ends the ordering, so the loop ends.
C25_Terminates ==
    /\ []DepthBounded
    /\ [][InnerShrinks]_vars
    /\ <>(stepPc \in {"returned", "raised"})

C25_Witness ==
    /\ Len(stack) = 3
    /\ stepPc = "inner"
    /\ Len(sortedSoFar) = 2
    /\ unsortedLeft # <<>>

-----------------------------------------------------------------------------
(* Claims about the files of the export *)

\* The pov file of the run is the document startExport assembled.
PovWritten(run) ==
    /\ run.pov # <<>>
    /\ run.pov[1].k = "header"

\* C26: POV-Ray is started only after the pov file and, if there are mesh
\* declarations, the mesh file have been written; a writeFile that fails is
\* reported and ends the export without rendering.
C26_AsStated ==
    \A i \in 1 .. Len(runs) :
        /\ runs[i].rendered =>
              /\ PovWritten(runs[i])
              /\ runs[i].meshFileContent # <<>> => runs[i].meshFile = runs[i].meshFileContent
        /\ (runs[i].firstLayer # <<>> /\ ~PovWritten(runs[i])) => runs[i].outcome # "done"

\* The statement is `object { <label>_mesh`.
MeshReference(t) ==
    /\ t.k = "open"
    /\ t.kw = "object"
    /\ Len(t.params) = 3
    /\ t.params[3] = "mesh"

\* C27: every `<label>_mesh` the pov file of an export refers to is declared
\* in the meshFileContent of that export.
C27_MeshReferencesDeclared ==
    \A j \in 1 .. Len(runs) :
        \A m \in 1 .. Len(runs[j].pov) :
            MeshReference(runs[j].pov[m]) =>
                DeclarationsOf(runs[j].meshFileContent, runs[j].pov[m].params) >= 1

\* A finished export of a cut of a mesh object and an object with an empty
\* tessellation: the first is referred to inside the difference, the second
\* is not.
C27_Witness ==
    /\ Len(runs) = 2
    /\ runs[2].outcome = "done"
    /\ \E m \in 2 .. Len(runs[2].pov) :
          /\ MeshReference(runs[2].pov[m]) /\ runs[2].pov[m].n = Nm("Feature")
          /\ \E p \in 1 .. m - 1 : runs[2].pov[p].n = <<"Cut", "001">>
    /\ \A m \in 1 .. Len(runs[2].pov) :
          MeshReference(runs[2].pov[m]) => runs[2].pov[m].n # Nm("Empty")


\* ---------------------------------------------------------------------------
\* Claims about the material of a mesh
\* ---------------------------------------------------------------------------

MaterialClause(t) == t.k \in {"pigment", "finish", "material"}

\* C28: when createMesh is called with expPigment false, the object statement
\* it returns holds no pigment, material or texture clause.
C28_AsStated ==
    (compilePc = "returned" /\ ~call.f.expPigment)
        => \A i \in 1 .. Len(returned) : ~MaterialClause(returned[i])


\* ---------------------------------------------------------------------------
\* Claims about the order of the placement clauses
\* ---------------------------------------------------------------------------

\* The tokens i .. j of the code lie in one block: no block opens or closes
\* between them.
SameBlock(povCode, i, j) ==
    \A m \in i .. j : povCode[m].k \notin {"open", "close"}

\* The translate clauses of the node whose rotation stands at j, in the block
\* of that rotation.  When the node has a base that is not the origin, the
\* last of them is the translation of its placement (1635-1645).
TranslatesAround(povCode, j) ==
    {i \in 1 .. Len(povCode) :
        /\ povCode[i].k = "translate"
        /\ povCode[i].n = povCode[j].n
        /\ IF i < j THEN SameBlock(povCode, i, j) ELSE SameBlock(povCode, j, i)}

RotateFirst(objs, povCode) ==
    \A j \in 1 .. Len(povCode) :
        (/\ povCode[j].k = "rotate"
         /\ objs[povCode[j].n].Placement.Base # Origin
         /\ TranslatesAround(povCode, j) # {})
            => \E i \in TranslatesAround(povCode, j) : i > j

\* C29: where createPovCode writes the rotation and the translation of one
\* node's placement into the same block, the rotate clause stands before the
\* translate clause.
C29_AsStated ==
    compilePc = "returned" => RotateFirst(doc, returned)


\* ---------------------------------------------------------------------------
\* Claims about the axis of a polar array
\* ---------------------------------------------------------------------------

\* The axis directive of the code is the source axis over a positive divisor.
AxisKeepsDirection(povCode, axis) ==
    \A j \in 1 .. Len(povCode) :
        (povCode[j].k = "declare" /\ povCode[j].name = "axis")
            => povCode[j].val[1].num = axis /\ povCode[j].val[1].den > 0

\* C30: for a polar array whose axis is not the zero vector, computing the
\* axis of the loop raises no division by zero, and the axis written is a
\* positive multiple of the source axis.
C30_AsStated ==
    (compilePc # "ready" /\ doc[Nm("Array")].Axis # Origin)
        => /\ compilePc = "returned"
           /\ AxisKeepsDirection(returned, doc[Nm("Array")].Axis)

=============================================================================
